---- MODULE Spec2Model ----
(***************************************************************************)
(* Model of the Prometeo acquisition core of meteobriefing:               *)
(*   - PrometeoService (session automation controller) with its mutex     *)
(*     queue, src/src/main/services/downloader.service.ts lines 168-794;  *)
(*   - DownloaderService (concurrent downloader), same file lines 11-147. *)
(* JavaScript runs one synchronous block at a time; the model's actions   *)
(* are the blocks between two awaits (or finer).                          *)
(***************************************************************************)
EXTENDS Integers, Sequences, FiniteSets, TLC

(***************************************************************************)
(* Bounds of the model.                                                   *)
(***************************************************************************)
\* number of session operations invoked in one run
NumOps == 3

Ops == 1..NumOps
NoOp == 0

Kinds == {"catalog", "chart", "combined", "ppt"}
\* product types the callers pass (a known one, another known one)
ProductTypes == {"CHARTS", "SATELLITE"}
ProductIds == {"42"}

VARIABLES
  \* ---- PrometeoService ----
  mutexQueue,    \* resolve callbacks of the waiters, named by the operation each resumes
  mutexLocked,   \* PrometeoService.mutexLocked
  pc,            \* position of each operation
  phase,         \* private method an operation is in: "catalog", "type", "chart", "none"
  kind,          \* public method invoked
  argType,       \* filter.productType / productType argument
  argProduct,    \* productId argument
  \* ---- AuthService and the remote page ----
  loggedIn,      \* AuthService.loggedIn
  onSearchPage,  \* currentUrl.includes('ricercaProdotto')
  slArea,        \* value of #slArea
  slLista,       \* value of #slListaImmagini
  \* ---- history variables (observations, not program state) ----
  lastEval,      \* unfinished operation that made the latest page interaction
  evalClosed,    \* operations that were unfinished when another one's interaction followed theirs
  typeSetBy,     \* unfinished operation that last set #slArea
  productSetBy,  \* unfinished operation that last set #slListaImmagini
  lastPptSet,    \* <<product type, page reloaded since>> of the latest set script of
                 \* _ensureProductType, NoSet once another operation came in between
  \* ---- DownloaderService ----
  urls,          \* the urls argument of downloadCharts
  dl,            \* the state of one downloadCharts call and of the cache directory
  \* ---- the stability wait of PrometeoService in detail ----
  fetchCount,    \* PrometeoService.fetchCount
  sw,            \* the chart-URL operation inside the lock and its stability wait
  \* ---- one session operation after the other, with the clock of its waits ----
  op,            \* the operation inside the lock: its position and its stage clock
  \* ---- the page at the extraction of the steps ----
  dom,           \* arrLinkImmagini, the label nodes, and the steps extracted from them
  \* ---- the IPC handlers of the main process and the renderer's store ----
  ipc,           \* the invocations of the Prometeo IPC handlers
  store          \* useProductsStore and its fetchChartUrls calls in flight

mutexVars == <<mutexQueue, mutexLocked>>
callVars == <<kind, argType, argProduct>>
pageVars == <<onSearchPage, slArea, slLista>>
evalVars == <<lastEval, evalClosed>>
setVars == <<typeSetBy, productSetBy, lastPptSet>>
sessionVars == <<mutexQueue, mutexLocked, pc, phase, kind, argType, argProduct,
                 loggedIn, onSearchPage, slArea, slLista,
                 lastEval, evalClosed, typeSetBy, productSetBy, lastPptSet>>

dlVars == <<urls, dl>>

waitVars == <<fetchCount, sw>>

uiVars == <<ipc, store>>

vars == <<sessionVars, dlVars, waitVars, op, dom, uiVars>>

(***************************************************************************)
(* typeValueMap[productType] || '1'  (lines 358-372 and 528-541)          *)
(***************************************************************************)
TypeValue(t) ==
  CASE t = "CHARTS" -> "1"
    [] t = "SATELLITE" -> "2"
    [] t = "FLIGHT CHARTS" -> "3"
    [] t = "MESSAGES" -> "4"
    [] t = "RADAR" -> "6"
    [] t = "METGRAMS" -> "8"
    [] t = "SOUNDINGS" -> "9"
    [] t = "LIGHTNING" -> "10"
    [] t = "SEASONAL" -> "11"
    [] t = "SPACE WEATHER" -> "12"
    [] t = "SUBSEASONAL" -> "15"
    [] OTHER -> "1"

\* positions between the resumption after acquireLock and the finally block
BodyPcs == {"ensure", "nav", "cat_set", "cat_wait", "cat_extract",
            "ppt_read", "ppt_set", "ppt_wait",
            "ch_reset", "ch_select", "ch_verify", "ch_reselect", "ch_reverify",
            "ch_stable1", "ch_fallback", "ch_stable2", "ch_zero2", "ch_labels",
            "ch_inline", "ch_extract"}
\* finally_ok: a result is returned; finally_empty: the empty chart result of
\* line 637; finally_auth: the error of line 208; finally_err: another error
FinallyPcs == {"finally_ok", "finally_empty", "finally_auth", "finally_err"}
\* an operation is between its acquireLock return and its releaseLock call
\* ("acquired": took the free lock; "granted": a releaseLock resolved its promise)
InCS(p) == pc[p] \in BodyPcs \cup FinallyPcs \cup {"acquired", "granted"}
Finished(p) == pc[p] \in {"done", "failed"}

\* first position of a private method after ensureSearchPage returned
FirstPc(ph) ==
  CASE ph = "catalog" -> "cat_set"
    [] ph = "type" -> "ppt_read"
    [] OTHER -> "ch_reset"

\* private method a public method starts with (lines 346, 478, 494, 513)
FirstPhase(k) ==
  CASE k = "catalog" -> "catalog"
    [] k = "combined" -> "catalog"
    [] k = "ppt" -> "type"
    [] OTHER -> "chart"

NoSet == <<>>

\* the page was loaded again: the fields have their initial values
Reloaded(h) == IF h = NoSet THEN NoSet ELSE <<h[1], TRUE>>

\* a page interaction by operation p (executeJavaScript on the shared window)
NoteEval(p) ==
  /\ lastEval' = p
  /\ evalClosed' = IF lastEval \notin {NoOp, p} THEN evalClosed \cup {lastEval}
                   ELSE evalClosed

\* an operation finished: the history variables name unfinished operations only
Forget(p, v) == IF v = p THEN NoOp ELSE v

Goto(p, l) == pc' = [pc EXCEPT ![p] = l]

InitSession ==
  /\ mutexQueue = <<>>
  /\ mutexLocked = FALSE
  /\ pc = [p \in Ops |-> "idle"]
  /\ phase = [p \in Ops |-> "none"]
  /\ kind = [p \in Ops |-> "none"]
  /\ argType = [p \in Ops |-> "none"]
  /\ argProduct = [p \in Ops |-> "none"]
  /\ loggedIn \in BOOLEAN
  /\ onSearchPage = FALSE
  /\ slArea = ""
  /\ slLista = ""
  /\ lastEval = NoOp
  /\ evalClosed = {}
  /\ typeSetBy = NoOp
  /\ lastPptSet = NoSet
  /\ productSetBy = NoOp

(***************************************************************************)
(* acquireLock, lines 177-185: the synchronous part run by the caller.    *)
(***************************************************************************)
\* the flag is not set on the free path
acquireLockNoFlag(p) ==
  IF ~mutexLocked
    THEN /\ Goto(p, "acquired")
         /\ UNCHANGED <<mutexQueue, mutexLocked>>
    ELSE /\ mutexQueue' = Append(mutexQueue, p)
         /\ Goto(p, "waiting")
         /\ UNCHANGED mutexLocked

acquireLock(p) ==
  IF ~mutexLocked
    THEN /\ mutexLocked' = TRUE
         /\ Goto(p, "acquired")
         /\ UNCHANGED mutexQueue
    ELSE /\ mutexQueue' = Append(mutexQueue, p)
         /\ Goto(p, "waiting")
         /\ UNCHANGED mutexLocked

(***************************************************************************)
(* releaseLock, lines 187-194, called by p which then sits at l.          *)
(***************************************************************************)
\* pop() instead of shift(): the newest waiter first
releaseLockPop(p, l) ==
  IF mutexQueue # <<>>
    THEN /\ mutexQueue' = SubSeq(mutexQueue, 1, Len(mutexQueue) - 1)
         /\ pc' = [pc EXCEPT ![p] = l, ![mutexQueue[Len(mutexQueue)]] = "granted"]
         /\ UNCHANGED mutexLocked
    ELSE /\ mutexLocked' = FALSE
         /\ Goto(p, l)
         /\ UNCHANGED mutexQueue

\* the flag is cleared also when the lock is handed to a waiter
releaseLockFreeing(p, l) ==
  /\ mutexLocked' = FALSE
  /\ IF mutexQueue # <<>>
       THEN /\ mutexQueue' = Tail(mutexQueue)
            /\ pc' = [pc EXCEPT ![p] = l, ![Head(mutexQueue)] = "granted"]
       ELSE /\ Goto(p, l)
            /\ UNCHANGED mutexQueue

releaseLock(p, l) ==
  IF mutexQueue # <<>>
    THEN /\ mutexQueue' = Tail(mutexQueue)
         /\ pc' = [pc EXCEPT ![p] = l, ![Head(mutexQueue)] = "granted"]
         /\ UNCHANGED mutexLocked
    ELSE /\ mutexLocked' = FALSE
         /\ Goto(p, l)
         /\ UNCHANGED mutexQueue

\* The invocation of a public method up to its `await this.acquireLock()`.
\* Operations are numbered in the order of their calls: p is the p-th call.
Invoke(p, k, t, pr) ==
  /\ pc[p] = "idle"
  /\ IF p = 1 THEN TRUE ELSE pc[p - 1] # "idle"
  /\ kind' = [kind EXCEPT ![p] = k]
  /\ argType' = [argType EXCEPT ![p] = t]
  /\ argProduct' = [argProduct EXCEPT ![p] = pr]
  /\ acquireLock(p)
  /\ UNCHANGED <<dlVars, waitVars, op, dom, uiVars, phase, loggedIn, pageVars, evalVars, setVars>>

fetchProductCatalog(p) ==
  \E t \in ProductTypes : Invoke(p, "catalog", t, "none")

fetchChartUrls(p) ==
  \E pr \in ProductIds : Invoke(p, "chart", "none", pr)

fetchCatalogAndChartUrls(p) ==
  \E t \in ProductTypes, pr \in ProductIds : Invoke(p, "combined", t, pr)

fetchChartUrlsForPpt(p) ==
  \E t \in ProductTypes, pr \in ProductIds : Invoke(p, "ppt", t, pr)

\* the await of acquireLock resumes: the try block calls the first private method
Resume(p) ==
  /\ pc[p] \in {"acquired", "granted"}
  /\ Goto(p, "ensure")
  /\ phase' = [phase EXCEPT ![p] = FirstPhase(kind[p])]
  /\ UNCHANGED <<dlVars, waitVars, op, dom, uiVars, mutexVars, callVars, loggedIn, pageVars, evalVars, setVars>>

(***************************************************************************)
(* ensureSearchPage, lines 205-235.                                       *)
(***************************************************************************)
\* ensureSearchPage without the check of lines 206-209
ensureSearchPageUnchecked(p) ==
  /\ pc[p] = "ensure"
  /\ IF onSearchPage
       THEN /\ Goto(p, FirstPc(phase[p]))
            /\ UNCHANGED evalVars
       ELSE /\ NoteEval(p)
            /\ \/ Goto(p, "nav")
               \/ Goto(p, "finally_err")
  /\ UNCHANGED <<dlVars, waitVars, op, dom, uiVars, mutexVars, phase, callVars, loggedIn, pageVars, setVars>>

ensureSearchPage(p) ==
  /\ pc[p] = "ensure"
  /\ IF ~loggedIn
       THEN \* throw new Error('Non connesso a Prometeo')
            /\ Goto(p, "finally_auth")
            /\ UNCHANGED evalVars
       ELSE IF onSearchPage
         THEN /\ Goto(p, FirstPc(phase[p]))
              /\ UNCHANGED evalVars
         ELSE \* executeJavaScript(window.location.href = ...), which may throw
              /\ NoteEval(p)
              /\ \/ Goto(p, "nav")
                 \/ Goto(p, "finally_err")
  /\ UNCHANGED <<dlVars, waitVars, op, dom, uiVars, mutexVars, phase, callVars, loggedIn, pageVars, setVars>>

\* lines 222-232: did-finish-load or the 15 s timeout, then the 3 s settle delay
navigationWait(p) ==
  /\ pc[p] = "nav"
  /\ \E loaded \in BOOLEAN :
       /\ onSearchPage' = loaded
       /\ slArea' = IF loaded THEN "" ELSE slArea
       /\ slLista' = IF loaded THEN "" ELSE slLista
       /\ lastPptSet' = IF loaded THEN Reloaded(lastPptSet) ELSE lastPptSet
  /\ Goto(p, FirstPc(phase[p]))
  /\ UNCHANGED <<dlVars, waitVars, op, dom, uiVars, mutexVars, phase, callVars, loggedIn, evalVars, typeSetBy,
                 productSetBy>>

(***************************************************************************)
(* _fetchProductCatalog, lines 352-473.                                   *)
(***************************************************************************)
\* lines 377-379: jQuery('#slArea').val(typeValue).trigger('change')
CatalogSetType(p) ==
  /\ pc[p] = "cat_set"
  /\ NoteEval(p)
  /\ \/ /\ slArea' = TypeValue(argType[p])
        /\ slLista' = ""
        /\ typeSetBy' = p
        /\ lastPptSet' = NoSet
        /\ Goto(p, "cat_wait")
     \/ \* the evaluation throws
        /\ Goto(p, "finally_err")
        /\ UNCHANGED <<slArea, slLista, typeSetBy, lastPptSet>>
  /\ UNCHANGED <<dlVars, waitVars, op, dom, uiVars, mutexVars, phase, callVars, loggedIn, onSearchPage,
                 productSetBy>>

\* waitForCondition, lines 237-254: one poll; evaluation errors are swallowed.
\* The loop ends on a true result or on the ceiling; then delay(500).
waitForCondition(p) ==
  /\ pc[p] \in {"cat_wait", "ppt_wait"}
  /\ NoteEval(p)
  /\ \/ UNCHANGED <<pc, phase>>
     \/ /\ pc[p] = "cat_wait"
        /\ Goto(p, "cat_extract")
        /\ UNCHANGED phase
     \/ \* _ensureProductType returns, _fetchChartUrls starts (line 514)
        /\ pc[p] = "ppt_wait"
        /\ Goto(p, "ensure")
        /\ phase' = [phase EXCEPT ![p] = "chart"]
  /\ UNCHANGED <<dlVars, waitVars, op, dom, uiVars, mutexVars, callVars, loggedIn, pageVars, setVars>>

\* the lock is released between the two sub-steps
CatalogToChartReleasing(p) ==
  /\ releaseLock(p, "ensure")
  /\ phase' = [phase EXCEPT ![p] = "chart"]

\* fetchCatalogAndChartUrls, lines 494-495: _fetchProductCatalog returned and
\* _fetchChartUrls is called inside the same try block
CatalogToChart(p) ==
  /\ Goto(p, "ensure")
  /\ phase' = [phase EXCEPT ![p] = "chart"]
  /\ UNCHANGED mutexVars

\* lines 396-472: the batched extraction and JSON.parse
CatalogExtract(p) ==
  /\ pc[p] = "cat_extract"
  /\ NoteEval(p)
  /\ \/ /\ kind[p] = "catalog"
        /\ Goto(p, "finally_ok")
        /\ UNCHANGED <<phase, mutexVars>>
     \/ /\ kind[p] = "combined"
        /\ CatalogToChart(p)
     \/ /\ Goto(p, "finally_err")
        /\ UNCHANGED <<phase, mutexVars>>
  /\ UNCHANGED <<dlVars, waitVars, op, dom, uiVars, callVars, loggedIn, pageVars, setVars>>

(***************************************************************************)
(* _ensureProductType, lines 525-574.                                     *)
(***************************************************************************)
\* the field's value compared with the product type's name
TypeAlreadySetByName(t) == slArea = t

\* line 548: currentValue === typeValue
TypeAlreadySet(t) == slArea = TypeValue(t)

\* lines 544-551: read #slArea, return when it already holds the value
EnsureTypeRead(p) ==
  /\ pc[p] = "ppt_read"
  /\ NoteEval(p)
  /\ \/ /\ TypeAlreadySet(argType[p])
        /\ Goto(p, "ensure")
        /\ phase' = [phase EXCEPT ![p] = "chart"]
     \/ /\ ~TypeAlreadySet(argType[p])
        /\ Goto(p, "ppt_set")
        /\ UNCHANGED phase
     \/ /\ Goto(p, "finally_err")
        /\ UNCHANGED phase
  /\ UNCHANGED <<dlVars, waitVars, op, dom, uiVars, mutexVars, callVars, loggedIn, pageVars, setVars>>

\* lines 562-564
EnsureTypeSet(p) ==
  /\ pc[p] = "ppt_set"
  /\ NoteEval(p)
  /\ \/ /\ slArea' = TypeValue(argType[p])
        /\ slLista' = ""
        /\ typeSetBy' = p
        /\ lastPptSet' = <<argType[p], FALSE>>
        /\ Goto(p, "ppt_wait")
     \/ /\ Goto(p, "finally_err")
        /\ UNCHANGED <<slArea, slLista, typeSetBy, lastPptSet>>
  /\ UNCHANGED <<dlVars, waitVars, op, dom, uiVars, mutexVars, phase, callVars, loggedIn, onSearchPage,
                 productSetBy>>

(***************************************************************************)
(* _fetchChartUrls, lines 576-751.                                        *)
(***************************************************************************)
\* lines 581-584: arrLinkImmagini = []
ChartReset(p) ==
  /\ pc[p] = "ch_reset"
  /\ NoteEval(p)
  /\ \/ Goto(p, "ch_select")
     \/ Goto(p, "finally_err")
  /\ UNCHANGED <<dlVars, waitVars, op, dom, uiVars, mutexVars, phase, callVars, loggedIn, pageVars, setVars>>

\* lines 588-590 and 607-609: set #slListaImmagini; the value sticks only when
\* the dropdown holds the option
ChartSelect(p) ==
  /\ pc[p] \in {"ch_select", "ch_reselect"}
  /\ NoteEval(p)
  /\ \/ /\ \E v \in {argProduct[p], ""} : slLista' = v
        /\ productSetBy' = p
        /\ Goto(p, IF pc[p] = "ch_select" THEN "ch_verify" ELSE "ch_reverify")
     \/ /\ Goto(p, "finally_err")
        /\ UNCHANGED <<slLista, productSetBy>>
  /\ UNCHANGED <<dlVars, waitVars, op, dom, uiVars, mutexVars, phase, callVars, loggedIn, onSearchPage, slArea,
                 typeSetBy, lastPptSet>>

\* lines 593-615: re-read the selected value, one retry after 2 s on a mismatch
ChartVerify(p) ==
  /\ pc[p] \in {"ch_verify", "ch_reverify"}
  /\ NoteEval(p)
  /\ \/ /\ pc[p] = "ch_verify"
        /\ slLista # argProduct[p]
        /\ Goto(p, "ch_reselect")
     \/ /\ pc[p] = "ch_reverify" \/ slLista = argProduct[p]
        /\ Goto(p, "ch_stable1")
     \/ Goto(p, "finally_err")
  /\ UNCHANGED <<dlVars, waitVars, op, dom, uiVars, mutexVars, phase, callVars, loggedIn, pageVars, setVars>>

\* the fallback is repeated as long as the count is zero
AfterStableRepeating(l, n) ==
  IF n > 0 THEN "ch_labels" ELSE "ch_fallback"

\* lines 620-635: where _fetchChartUrls is with the count n that the
\* stability wait at l returned ("ch_zero2": zero again after the fallback)
AfterStable(l, n) ==
  IF n > 0 THEN "ch_labels"
  ELSE IF l = "ch_stable1" THEN "ch_fallback" ELSE "ch_zero2"

\* _waitForStableArray, lines 267-341, as called on lines 620 and 632: a poll
\* (errors swallowed), or the wait returns zero or a count, or the read after
\* the ceiling (line 333, outside any try) throws
waitForStableArray(p) ==
  /\ pc[p] \in {"ch_stable1", "ch_stable2"}
  /\ NoteEval(p)
  /\ \/ UNCHANGED pc
     \/ \E n \in {0, 1} : Goto(p, AfterStable(pc[p], n))
     \/ Goto(p, "finally_err")
  /\ UNCHANGED <<dlVars, waitVars, op, dom, uiVars, mutexVars, phase, callVars, loggedIn, pageVars, setVars>>

\* an empty step array after the fallback is an error
EmptyResultThrows(p) ==
  /\ pc[p] = "ch_zero2"
  /\ Goto(p, "finally_err")
  /\ UNCHANGED <<dlVars, waitVars, op, dom, uiVars, mutexVars, phase, callVars, loggedIn, pageVars, evalVars,
                 setVars>>

\* lines 635-638: return { productName: '', date: '', steps: [] }
EmptyResult(p) ==
  /\ pc[p] = "ch_zero2"
  /\ Goto(p, "finally_empty")
  /\ UNCHANGED <<dlVars, waitVars, op, dom, uiVars, mutexVars, phase, callVars, loggedIn, pageVars, evalVars,
                 setVars>>

\* lines 623-631: the cercaImmagini fallback
ChartFallback(p) ==
  /\ pc[p] = "ch_fallback"
  /\ NoteEval(p)
  /\ \/ Goto(p, "ch_stable2")
     \/ Goto(p, "finally_err")
  /\ UNCHANGED <<dlVars, waitVars, op, dom, uiVars, mutexVars, phase, callVars, loggedIn, pageVars, setVars>>

\* lines 642-659: the label wait; its reads are outside any try
ChartLabels(p) ==
  /\ pc[p] = "ch_labels"
  /\ NoteEval(p)
  /\ \/ UNCHANGED pc
     \/ Goto(p, "ch_inline")
     \/ Goto(p, "finally_err")
  /\ UNCHANGED <<dlVars, waitVars, op, dom, uiVars, mutexVars, phase, callVars, loggedIn, pageVars, setVars>>

\* lines 662-669
ChartInline(p) ==
  /\ pc[p] = "ch_inline"
  /\ NoteEval(p)
  /\ \/ Goto(p, "ch_extract")
     \/ Goto(p, "finally_err")
  /\ UNCHANGED <<dlVars, waitVars, op, dom, uiVars, mutexVars, phase, callVars, loggedIn, pageVars, setVars>>

\* lines 673-750
ChartExtract(p) ==
  /\ pc[p] = "ch_extract"
  /\ NoteEval(p)
  /\ \/ Goto(p, "finally_ok")
     \/ Goto(p, "finally_err")
  /\ UNCHANGED <<dlVars, waitVars, op, dom, uiVars, mutexVars, phase, callVars, loggedIn, pageVars, setVars>>

(***************************************************************************)
(* The finally block of the four public methods (lines 347-349, 479-481,  *)
(* 497-499, 515-517): releaseLock, then the result or the error reaches   *)
(* the caller.                                                            *)
(***************************************************************************)
\* release after the await instead of in a finally block: skipped by an error
FinallyOnSuccessOnly(p) ==
  /\ pc[p] \in FinallyPcs
  /\ IF pc[p] \in {"finally_ok", "finally_empty"}
       THEN releaseLock(p, "done")
       ELSE Goto(p, "failed") /\ UNCHANGED mutexVars
  /\ phase' = [phase EXCEPT ![p] = "none"]
  /\ kind' = [kind EXCEPT ![p] = "none"]
  /\ argType' = [argType EXCEPT ![p] = "none"]
  /\ argProduct' = [argProduct EXCEPT ![p] = "none"]
  /\ lastEval' = Forget(p, lastEval)
  /\ typeSetBy' = Forget(p, typeSetBy)
  /\ lastPptSet' = IF kind[p] = "ppt" THEN lastPptSet ELSE NoSet
  /\ productSetBy' = Forget(p, productSetBy)
  /\ UNCHANGED <<dlVars, waitVars, op, dom, uiVars, loggedIn, pageVars, evalClosed>>

Finally(p) ==
  /\ pc[p] \in FinallyPcs
  /\ releaseLock(p, IF pc[p] \in {"finally_ok", "finally_empty"} THEN "done"
                    ELSE "failed")
  /\ phase' = [phase EXCEPT ![p] = "none"]
  /\ kind' = [kind EXCEPT ![p] = "none"]
  /\ argType' = [argType EXCEPT ![p] = "none"]
  /\ argProduct' = [argProduct EXCEPT ![p] = "none"]
  /\ lastEval' = Forget(p, lastEval)
  /\ typeSetBy' = Forget(p, typeSetBy)
  /\ lastPptSet' = IF kind[p] = "ppt" THEN lastPptSet ELSE NoSet
  /\ productSetBy' = Forget(p, productSetBy)
  /\ UNCHANGED <<dlVars, waitVars, op, dom, uiVars, loggedIn, pageVars, evalClosed>>

(***************************************************************************)
(* AuthService, src/src/main/services/auth.service.ts: what login and     *)
(* logout do to the state the controller reads.                           *)
(***************************************************************************)
\* login, lines 71-151: loads the base URL in the shared window; loggedIn is
\* set on success and left as it is otherwise
AuthLogin ==
  /\ loggedIn' \in {TRUE, loggedIn}
  /\ onSearchPage' = FALSE
  /\ slArea' = ""
  /\ slLista' = ""
  /\ lastPptSet' = NoSet
  /\ UNCHANGED <<dlVars, waitVars, op, dom, uiVars, mutexVars, pc, phase, callVars, evalVars, typeSetBy,
                 productSetBy>>

\* logout, lines 153-161: destroys the window
AuthLogout ==
  /\ loggedIn' = FALSE
  /\ onSearchPage' = FALSE
  /\ slArea' = ""
  /\ slLista' = ""
  /\ lastPptSet' = NoSet
  /\ UNCHANGED <<dlVars, waitVars, op, dom, uiVars, mutexVars, pc, phase, callVars, evalVars, typeSetBy,
                 productSetBy>>


OpStep(p) ==
  \/ fetchProductCatalog(p)
  \/ fetchChartUrls(p)
  \/ fetchCatalogAndChartUrls(p)
  \/ fetchChartUrlsForPpt(p)
  \/ Resume(p)
  \/ ensureSearchPage(p)
  \/ navigationWait(p)
  \/ CatalogSetType(p)
  \/ waitForCondition(p)
  \/ CatalogExtract(p)
  \/ EnsureTypeRead(p)
  \/ EnsureTypeSet(p)
  \/ ChartReset(p)
  \/ ChartSelect(p)
  \/ ChartVerify(p)
  \/ waitForStableArray(p)
  \/ EmptyResult(p)
  \/ ChartFallback(p)
  \/ ChartLabels(p)
  \/ ChartInline(p)
  \/ ChartExtract(p)
  \/ Finally(p)

NextSession ==
  \/ \E p \in Ops : OpStep(p)
  \/ AuthLogin
  \/ AuthLogout

(***************************************************************************)
(* The lock alone: the public methods as their callers see them, lines    *)
(* 343-350, 475-482, 488-500 and 507-518.  A caller whose call has ended  *)
(* may call again, so that the queue never runs out of newcomers; the     *)
(* body of the try block is taken as one step that ends with a result or  *)
(* with an error.                                                         *)
(***************************************************************************)
\* a public method is called, up to its `await this.acquireLock()`
Call(p) ==
  /\ pc[p] \in {"idle", "done", "failed"}
  /\ \E k \in Kinds : kind' = [kind EXCEPT ![p] = k]
  /\ acquireLock(p)
  /\ UNCHANGED <<dlVars, waitVars, op, dom, uiVars, phase, argType, argProduct, loggedIn, pageVars,
                 evalVars, setVars>>

\* the private methods called in the try block return or throw
TryBlock(p) ==
  /\ pc[p] = "ensure"
  /\ \E l \in {"finally_ok", "finally_empty", "finally_auth", "finally_err"} : Goto(p, l)
  /\ UNCHANGED <<dlVars, waitVars, op, dom, uiVars, mutexVars, phase, callVars, loggedIn, pageVars,
                 evalVars, setVars>>

NextLock ==
  \E p \in Ops :
    \/ Call(p)
    \/ Resume(p)
    \/ TryBlock(p)
    \/ Finally(p)

(***************************************************************************)
(* Properties of the mutex queue.                                         *)
(***************************************************************************)
\* positions of _fetchChartUrls after the product field was set
AfterSelectPcs == {"ch_verify", "ch_reverify", "ch_stable1", "ch_fallback",
                   "ch_stable2", "ch_labels", "ch_inline", "ch_extract"}

\* C1 (mutex exclusivity): at most one operation is between its acquireLock
\* return and its releaseLock call; the operation whose page interaction is
\* the latest is that one, and no page interaction of an operation ever
\* followed the interaction of another operation that had not yet released.
MutexExclusivity ==
  /\ Cardinality({p \in Ops : InCS(p)}) <= 1
  /\ lastEval # NoOp => InCS(lastEval)
  /\ evalClosed = {}

\* C1 witness: operation 2 was handed the lock by operation 1's release and
\* has interacted with the page, while operation 3 waits
MutexExclusivityWitness ==
  /\ Finished(1)
  /\ lastEval = 2
  /\ pc[2] \in BodyPcs
  /\ pc[3] = "waiting"

\* C36 - mutex state invariant: in every reachable state a non-empty waiter
\* queue implies the lock is held (the waiters are the operations in the
\* queue, each once); the lock is held exactly when some operation is
\* between acquiring and releasing it; and once every started operation has
\* finished, the lock is free and the waiter queue is empty.
MutexState ==
  /\ mutexQueue # <<>> => mutexLocked
  /\ {mutexQueue[k] : k \in 1..Len(mutexQueue)} = {p \in Ops : pc[p] = "waiting"}
  /\ Len(mutexQueue) = Cardinality({p \in Ops : pc[p] = "waiting"})
  /\ mutexLocked <=> \E p \in Ops : InCS(p)
  /\ (\A p \in Ops : pc[p] = "idle" \/ Finished(p)) =>
       ~mutexLocked /\ mutexQueue = <<>>

\* the holder of the lock is in its finally block with every other operation
\* in the waiter queue
MutexStateWitness ==
  /\ pc[1] \in FinallyPcs
  /\ mutexLocked
  /\ Len(mutexQueue) = NumOps - 1

\* C2 (FIFO): operations are numbered by the order of their acquireLock
\* calls; no operation holds or has held the lock while an operation that
\* called acquireLock before it still waits.
FifoOrder ==
  \A p, q \in Ops :
    (InCS(p) \/ Finished(p)) /\ pc[q] = "waiting" => p < q

\* C2 witness: the release of operation 1 granted the lock to operation 2,
\* the earliest waiter, and operation 3 waits behind it
FifoOrderWitness ==
  /\ Finished(1)
  /\ pc[2] = "granted"
  /\ mutexQueue = <<3>>

\* C3 (release on failure): the step in which an operation's error reaches
\* its caller hands the lock to the first waiter when there is one and
\* frees the lock otherwise.
LockReleasedOnFailure ==
  [][\A p \in Ops :
       pc[p] # "failed" /\ pc'[p] = "failed" =>
         IF mutexQueue # <<>>
           THEN /\ pc'[Head(mutexQueue)] = "granted"
                /\ mutexQueue' = Tail(mutexQueue)
                /\ mutexLocked'
           ELSE ~mutexLocked']_vars

\* C3 witness: operation 1 failed while operation 2 waited, and 2 now has the lock
LockReleasedOnFailureWitness ==
  /\ pc[1] = "failed"
  /\ pc[2] = "granted"

\* C4 (atomic combined operation): from the start of the catalog sub-step to
\* the finally block of fetchCatalogAndChartUrls the lock is held and no
\* other operation is inside; during the chart-URL sub-step the product type
\* is the one this operation set, and after its selection the product is
\* the one it selected.
AtomicCombined ==
  \A p \in Ops :
    kind[p] = "combined" /\ pc[p] \in BodyPcs \cup FinallyPcs =>
      /\ mutexLocked
      /\ \A q \in Ops \ {p} : ~InCS(q)
      /\ phase[p] = "chart" => typeSetBy = p
      /\ phase[p] = "chart" /\ pc[p] \in AfterSelectPcs => productSetBy = p

\* C4 witness: a combined operation is in its chart-URL sub-step, past the
\* selection, with two other operations queued
AtomicCombinedWitness ==
  \E p \in Ops :
    /\ kind[p] = "combined"
    /\ phase[p] = "chart"
    /\ pc[p] = "ch_stable1"
    /\ Len(mutexQueue) = 2


\* C23 - no starvation: when every lock holder finishes, with a result or
\* with an error, every operation that has called acquireLock and waits in
\* the queue is eventually given the lock, however many operations queue up
\* behind it and whatever the holders' outcomes.
NoStarvation ==
  \A p \in Ops : (pc[p] = "waiting") ~> (pc[p] = "granted")

\* a waiter was given the lock by a holder that failed, with another
\* operation queued behind it
NoStarvationWitness ==
  \E p, q \in Ops :
    /\ pc[p] = "granted"
    /\ pc[q] = "failed"
    /\ mutexQueue # <<>>

(***************************************************************************)
(* Properties of the chart-URL operation and of the shared window.         *)
(***************************************************************************)
\* C12 - empty result instead of failure: an operation whose step array is
\* still empty after the first stability wait and after the fallback wait
\* returns the empty result: its next step goes to the return with no page
\* interaction (no label poll, no extraction), the finally block then
\* releases the lock and the operation ends without an error; no other path
\* leads to the empty result.
EmptyResultNotFailure ==
  [][\A p \in Ops :
       /\ pc[p] = "ch_zero2" /\ pc'[p] # "ch_zero2" =>
            /\ pc'[p] = "finally_empty"
            /\ UNCHANGED <<evalVars, pageVars, mutexVars>>
       /\ pc[p] # "finally_empty" /\ pc'[p] = "finally_empty" => pc[p] = "ch_zero2"
       /\ pc[p] # "ch_zero2" /\ pc'[p] = "ch_zero2" => pc[p] = "ch_stable2"
       /\ pc[p] = "finally_empty" /\ pc'[p] # "finally_empty" =>
            /\ pc'[p] = "done"
            /\ IF mutexQueue # <<>>
                 THEN /\ pc'[Head(mutexQueue)] = "granted"
                      /\ mutexQueue' = Tail(mutexQueue)
                 ELSE ~mutexLocked']_vars

\* an operation returns the empty result while another one waits for the lock
EmptyResultNotFailureWitness ==
  \E p \in Ops :
    /\ pc[p] = "finally_empty"
    /\ mutexLocked
    /\ mutexQueue # <<>>

\* C13 - NotAuthenticated: an operation that runs ensureSearchPage while
\* AuthService reports not logged in fails with the not-connected error in
\* that step, with no navigation and no script evaluation; the error goes
\* through the finally block to the caller (no retry), and no other path
\* raises it.  fetchCatalogAndChartUrls runs the check again before its
\* chart sub-step.
NotAuthenticated ==
  [][\A p \in Ops :
       /\ pc[p] = "ensure" /\ ~loggedIn /\ pc'[p] # "ensure" =>
            /\ pc'[p] = "finally_auth"
            /\ UNCHANGED <<evalVars, pageVars>>
       /\ pc[p] # "finally_auth" /\ pc'[p] = "finally_auth" =>
            pc[p] = "ensure" /\ ~loggedIn
       /\ pc[p] = "finally_auth" /\ pc'[p] # "finally_auth" => pc'[p] = "failed"]_vars

\* a logout between the sub-steps of fetchCatalogAndChartUrls: the catalog
\* sub-step set the product type, the chart sub-step fails on the check
NotAuthenticatedWitness ==
  \E p \in Ops :
    /\ kind[p] = "combined"
    /\ phase[p] = "chart"
    /\ pc[p] = "finally_auth"
    /\ ~loggedIn

\* C14 as stated: of two consecutive fetchChartUrlsForPpt calls with the same
\* product type and no other operation in between, the second does not
\* execute the set script when the first has executed it.
IdempotentFilterSet ==
  [][\A q \in Ops :
       kind[q] = "ppt" /\ pc[q] = "ppt_set" /\ pc'[q] = "ppt_wait" =>
         IF lastPptSet = NoSet THEN TRUE ELSE lastPptSet[1] # argType[q]]_vars

\* C14 - idempotent filter set: of two consecutive fetchChartUrlsForPpt calls
\* with the same product type, with no other operation and no reload of the
\* search page in between, the second does not execute the set script when
\* the first has completed it: the script runs at most once in total.
IdempotentFilterSetNoReload ==
  [][\A q \in Ops :
       kind[q] = "ppt" /\ pc[q] = "ppt_set" /\ pc'[q] = "ppt_wait" =>
         lastPptSet # <<argType[q], FALSE>>]_vars

\* the first call set the product type and ended; the second call, with the
\* same type, has passed _ensureProductType without setting it
IdempotentFilterSetWitness ==
  /\ pc[1] = "done"
  /\ kind[2] = "ppt"
  /\ phase[2] = "chart"
  /\ pc[2] = "ch_reset"
  /\ typeSetBy = NoOp
  /\ lastPptSet = <<argType[2], FALSE>>

\* C16 - single stateful operation on the shared session: while an operation
\* is inside the lock, a step that is not a step of an operation (login or
\* logout of AuthService) changes neither the page in the shared window nor
\* the login state.
SingleStatefulOperation ==
  [][(\E p \in Ops : pc[p] \in BodyPcs) /\ pc' = pc =>
       UNCHANGED <<pageVars, loggedIn>>]_vars


(***************************************************************************)
(* DownloaderService, lines 11-147.                                       *)
(*                                                                         *)
(* URLs are sequences of characters.  Array indexes are 1-based here      *)
(* (index i stands for the source's index i - 1).                         *)
\* positions at which an operation is in a polling stage: the list wait of
\* waitForCondition, the stability wait and the label wait
PollingPcs == {"cat_wait", "ppt_wait", "ch_stable1", "ch_stable2", "ch_labels"}

\* C21 - polling errors are swallowed: no read made inside a polling stage
\* (the list wait, the stability wait with its confirmation read and its
\* read after the ceiling, the label wait) makes the operation fail: a step
\* of an operation in a polling stage never leads to the error exit.
PollingErrorsSwallowed ==
  [][\A p \in Ops : pc[p] \in PollingPcs => pc'[p] # "finally_err"]_vars

(***************************************************************************)
\* longest urls argument
MaxUrls == 3

MIN_IMAGE_SIZE == 1024
concurrency == 2
MaxAttempts == 3
RetryDelayMs == 1500

Workers == 1..concurrency

UrlEmpty == <<>>
UrlFtp == <<"f", "t", "p", ":", "a">>
UrlPng == <<"h", "t", "t", "p", ":", "a", ".", "P", "N", "G">>
UrlJpg == <<"h", "t", "t", "p", "s", ":", "b">>
Urls == {UrlEmpty, UrlFtp, UrlPng, UrlJpg}

\* String.prototype.startsWith
StartsWith(u, pre) ==
  /\ Len(u) >= Len(pre)
  /\ SubSeq(u, 1, Len(pre)) = pre

\* String.prototype.includes
Includes(u, sub) ==
  \E k \in 0..(Len(u) - Len(sub)) : SubSeq(u, k + 1, k + Len(sub)) = sub

LowerChar(c) ==
  CASE c = "P" -> "p"
    [] c = "N" -> "n"
    [] c = "G" -> "g"
    [] OTHER -> c

\* String.prototype.toLowerCase
ToLowerCase(u) == [k \in 1..Len(u) |-> LowerChar(u[k])]

\* a non-empty URL starting with 'http'
IsValidUrl(u) == u # <<>> /\ StartsWith(u, <<"h", "t", "t", "p">>)

\* line 63: the first 16 hex characters of the SHA-256 digest, an opaque
\* value fixed by the URL (the model's URLs have different digests)
Sha256Hex16(u) ==
  CASE u = UrlPng -> "digest-1"
    [] u = UrlJpg -> "digest-2"
    [] u = UrlFtp -> "digest-3"
    [] OTHER -> "digest-0"

\* line 64
Ext(u) == IF Includes(ToLowerCase(u), <<".", "p", "n", "g">>) THEN ".png" ELSE ".jpg"

\* lines 63-65 for each URL of the model: join(cacheDir, hash + ext)
CachePaths == [u \in Urls |-> <<Sha256Hex16(u), Ext(u)>>]

\* line 65
CachePath(u) == CachePaths[u]

Paths == {CachePath(u) : u \in {v \in Urls : IsValidUrl(v)}}

\* file sizes: no file, and the two sizes around MIN_IMAGE_SIZE
Absent == -1
Sizes == {MIN_IMAGE_SIZE - 1, MIN_IMAGE_SIZE}

\* what session.fetch answers: it rejects, or resolves with a status, a
\* content type and a body
Responses ==
  {[rejects |-> TRUE, ok |-> FALSE, html |-> FALSE, size |-> 0]} \cup
  {[rejects |-> FALSE, ok |-> FALSE, html |-> FALSE, size |-> MIN_IMAGE_SIZE]} \cup
  {[rejects |-> FALSE, ok |-> TRUE, html |-> TRUE, size |-> MIN_IMAGE_SIZE]} \cup
  {[rejects |-> FALSE, ok |-> TRUE, html |-> FALSE, size |-> z] : z \in Sizes}
NoResponse == [rejects |-> FALSE, ok |-> FALSE, html |-> FALSE, size |-> Absent]

\* existsSync on the cache directory
existsSync(s, path) == path \in DOMAIN s.fs /\ s.fs[path] # Absent

Unset == <<"unset">>
Failed == <<>>
NoItem == [url |-> <<>>, index |-> 0]

Min(a, b) == IF a < b THEN a ELSE b

\* the closure reports the count before its increment
onDownloadedStale(s, i) ==
  [s EXCEPT !.downloaded = @ + 1,
            !.progress = Append(@, s.downloaded),
            !.callbacks[i] = @ + 1]

\* the closure passed to worker on lines 30-37
onDownloaded(s, i) ==
  [s EXCEPT !.downloaded = @ + 1,
            !.progress = Append(@, s.downloaded + 1),
            !.callbacks[i] = @ + 1]

\* line 88 up to the await of session.fetch on line 128: attempt n begins
StartAttempt(s, w, it, n) ==
  [s EXCEPT !.wpc[w] = "fetch",
            !.item[w] = it,
            !.attempt[w] = n,
            !.resp[w] = NoResponse,
            !.htmlAnswer[w] = FALSE,
            !.slept[w] = IF n = 1 THEN <<>> ELSE @,
            !.events[it.index] = IF n = 1 THEN Append(@, <<"fetch">>) ELSE @]

\* the worker has no item in hand
Idle(s, w) ==
  [s EXCEPT !.item[w] = NoItem, !.attempt[w] = 0, !.resp[w] = NoResponse,
            !.htmlAnswer[w] = FALSE, !.slept[w] = <<>>]

\* the size test of line 71 with > in the place of >=
CacheValidStrict(size) == size > MIN_IMAGE_SIZE

\* line 71
CacheValid(size) == size >= MIN_IMAGE_SIZE

\* lines 68-78 for a file that exists: statSync, then the path is the result
\* or the file is deleted
CacheCheck(s, it) ==
  LET path == CachePath(it.url)
      size == s.fs[path]
      t == [s EXCEPT !.events[it.index] = Append(@, <<"stat", size>>)] IN
  IF CacheValid(size)
    THEN [hit |-> TRUE, s |-> [t EXCEPT !.results[it.index] = path]]
    ELSE [hit |-> FALSE,
          s |-> [t EXCEPT !.fs[path] = Absent,
                          !.events[it.index] = Append(@, <<"unlink">>)]]

\* the guard of line 56 without its startsWith part
IsInvalidUrlEmptyOnly(u) == u = <<>>

\* line 56: !item.url || !item.url.startsWith('http')
IsInvalidUrl(u) == ~IsValidUrl(u)

(***************************************************************************)
(* worker, lines 51-118: the synchronous run of worker w from the head of *)
(* its while loop to its next await (the fetch of attempt 1) or to its    *)
(* end.                                                                   *)
(***************************************************************************)
RECURSIVE WorkerLoop(_, _)
WorkerLoop(s, w) ==
  IF s.queue = <<>>
    THEN [Idle(s, w) EXCEPT !.wpc[w] = "done"]
    ELSE
      LET it == Head(s.queue)
          s1 == [s EXCEPT !.queue = Tail(@)] IN
      IF IsInvalidUrl(it.url)
        THEN WorkerLoop(onDownloaded([s1 EXCEPT !.results[it.index] = Failed],
                                     it.index), w)
        ELSE
          IF existsSync(s1, CachePath(it.url))
            THEN LET c == CacheCheck(s1, it) IN
                 IF c.hit THEN WorkerLoop(onDownloaded(c.s, it.index), w)
                 ELSE StartAttempt(c.s, w, it, 1)
            ELSE StartAttempt(
                   [s1 EXCEPT !.events[it.index] = Append(@, <<"missing">>)],
                   w, it, 1)

\* results.push(localPath) in the place of results[item.index] = localPath
ItemSucceededPush(s, w) ==
  LET it == s.item[w] IN
  WorkerLoop(onDownloaded([s EXCEPT !.results[s.downloaded + 1] = CachePath(it.url)],
                          it.index), w)

\* lines 96-99 and 117, then the next loop round
ItemSucceeded(s, w) ==
  LET it == s.item[w] IN
  WorkerLoop(onDownloaded([s EXCEPT !.results[it.index] = CachePath(it.url)],
                          it.index), w)

\* the item is left without a result after the last failure
ItemFailedUnrecorded(s, w) ==
  WorkerLoop(onDownloaded(s, s.item[w].index), w)

\* lines 113-117 after the last failure, then the next loop round
ItemFailed(s, w) ==
  LET it == s.item[w] IN
  WorkerLoop(onDownloaded([s EXCEPT !.results[it.index] = Failed], it.index), w)

\* the loop bound of line 86 with 4 attempts
MoreAttemptsLoose(n) == n <= MaxAttempts

\* lines 86 and 108: another attempt follows attempt n
MoreAttempts(n) == n < MaxAttempts

\* no catch block: the error leaves the worker, and Promise.all rejects
CatchBlockRethrows(s, w) ==
  [s EXCEPT !.wpc[w] = "rejected", !.status = "rejected"]

\* the catch block without its cleanup of lines 103-107
CatchBlockNoCleanup(s, w) ==
  IF MoreAttempts(s.attempt[w])
    THEN [s EXCEPT !.wpc[w] = "delay",
                   !.resp[w] = NoResponse,
                   !.slept[w] = Append(@, RetryDelayMs * s.attempt[w])]
    ELSE ItemFailed(s, w)

\* the catch block, lines 100-111: clean up, then wait or give up
CatchBlock(s, w) ==
  LET it == s.item[w]
      s1 == [s EXCEPT !.fs[CachePath(it.url)] = Absent] IN
  IF MoreAttempts(s.attempt[w])
    THEN [s1 EXCEPT !.wpc[w] = "delay",
                    !.resp[w] = NoResponse,
                    !.slept[w] = Append(@, RetryDelayMs * s.attempt[w])]
    ELSE ItemFailed(s1, w)

\* the response checks without the content-type check of lines 139-142
ResponseAcceptedNoHtmlCheck(r) == r.ok

\* downloadFile, lines 134-142: the checks on the response
ResponseAccepted(r) == r.ok /\ ~r.html

\* lines 28-39: the loop that starts the workers; each runs to its first await
RECURSIVE StartWorkers(_, _)
StartWorkers(s, w) ==
  IF w < Min(concurrency, Len(s.queue))
    THEN StartWorkers(WorkerLoop([s EXCEPT !.started = @ + 1], w + 1), w + 1)
    ELSE s

(***************************************************************************)
(* The fields of dl.  Program state: status (of the downloadCharts       *)
(* promise), queue, results, downloaded, started (workers pushed), and   *)
(* per worker wpc (the await it is at), item, attempt, resp (the         *)
(* response whose body is awaited); fs is the cache directory, a size    *)
(* per path.  Observations: progress (the `downloaded` value of each     *)
(* onProgress call), callbacks (onDownloaded calls per item), slept (the *)
(* waits of the current item), htmlAnswer (the wait follows an OK        *)
(* text/html response), events (the cache check and the first fetch of   *)
(* each item, in order).                                                 *)
(***************************************************************************)
InitDL ==
  /\ urls \in UNION {[1..n -> Urls] : n \in 0..MaxUrls}
  /\ \E f \in [Paths -> {Absent} \cup Sizes] :
       dl = [status |-> "idle",
             queue |-> <<>>,
             results |-> <<>>,
             downloaded |-> 0,
             progress |-> <<>>,
             started |-> 0,
             wpc |-> [w \in Workers |-> "unstarted"],
             item |-> [w \in Workers |-> NoItem],
             attempt |-> [w \in Workers |-> 0],
             resp |-> [w \in Workers |-> NoResponse],
             htmlAnswer |-> [w \in Workers |-> FALSE],
             slept |-> [w \in Workers |-> <<>>],
             fs |-> f,
             callbacks |-> [i \in 1..Len(urls) |-> 0],
             events |-> [i \in 1..Len(urls) |-> <<>>]]

\* downloadCharts, lines 18-41, up to `await Promise.all(workers)`
downloadCharts ==
  /\ dl.status = "idle"
  /\ dl' = StartWorkers(
             [dl EXCEPT !.status = "running",
                        !.results = [i \in 1..Len(urls) |-> Unset],
                        !.queue = [i \in 1..Len(urls) |-> [url |-> urls[i], index |-> i]]],
             0)
  /\ UNCHANGED <<urls, sessionVars, waitVars, op, dom, uiVars>>

\* session.fetch settles (line 128): it rejects, or resolves with a response
\* that downloadFile checks (lines 134-142) before the await of arrayBuffer;
\* an error goes to the worker's catch block
FetchSettles(w) ==
  /\ dl.wpc[w] = "fetch"
  /\ \E r \in Responses :
       dl' = IF ~r.rejects /\ ResponseAccepted(r)
               THEN [dl EXCEPT !.wpc[w] = "buffer", !.resp[w] = r]
               ELSE CatchBlock([dl EXCEPT !.htmlAnswer[w] = r.ok /\ r.html], w)
  /\ UNCHANGED <<urls, sessionVars, waitVars, op, dom, uiVars>>

\* response.arrayBuffer() resolves: writeFileSync (line 145), then the size
\* check of the worker (lines 91-99)
BufferResolves(w) ==
  /\ dl.wpc[w] = "buffer"
  /\ LET path == CachePath(dl.item[w].url)
         s == [dl EXCEPT !.fs[path] = dl.resp[w].size]
         size == IF existsSync(s, path) THEN s.fs[path] ELSE 0 IN
     dl' = IF size < MIN_IMAGE_SIZE THEN CatchBlock(s, w) ELSE ItemSucceeded(s, w)
  /\ UNCHANGED <<urls, sessionVars, waitVars, op, dom, uiVars>>

\* response.arrayBuffer() rejects: the catch block
BufferRejects(w) ==
  /\ dl.wpc[w] = "buffer"
  /\ dl' = CatchBlock(dl, w)
  /\ UNCHANGED <<urls, sessionVars, waitVars, op, dom, uiVars>>

\* the timer of line 109 fires: the next attempt
DelayElapses(w) ==
  /\ dl.wpc[w] = "delay"
  /\ dl' = StartAttempt(dl, w, dl.item[w], dl.attempt[w] + 1)
  /\ UNCHANGED <<urls, sessionVars, waitVars, op, dom, uiVars>>

\* lines 41-42: Promise.all resolves when every started worker has ended
PromiseAllResolves ==
  /\ dl.status = "running"
  /\ \A w \in 1..dl.started : dl.wpc[w] = "done"
  /\ dl' = [dl EXCEPT !.status = "resolved"]
  /\ UNCHANGED <<urls, sessionVars, waitVars, op, dom, uiVars>>

NextDL ==
  \/ downloadCharts
  \/ \E w \in Workers :
       \/ FetchSettles(w)
       \/ BufferResolves(w)
       \/ BufferRejects(w)
       \/ DelayElapses(w)
  \/ PromiseAllResolves

(***************************************************************************)
(* Properties of the downloader.                                           *)
(***************************************************************************)
\* the worker has an item in hand
InHand(w) == dl.item[w] # NoItem

\* the cache path of the item worker w has in hand
PathOf(w) == CachePath(dl.item[w].url)

\* C5 - order preservation: at every moment of a downloadCharts call entry i
\* of the result list is unset, '' or the cache path computed from input URL
\* i, '' when URL i is invalid; the list has the length of the input, and the
\* list the call returns has no unset entry.
OrderPreservation ==
  dl.status # "idle" =>
    /\ Len(dl.results) = Len(urls)
    /\ \A i \in 1..Len(urls) :
         /\ dl.results[i] \in {Unset, Failed, CachePath(urls[i])}
         /\ ~IsValidUrl(urls[i]) => dl.results[i] \in {Unset, Failed}
         /\ dl.status = "resolved" => dl.results[i] # Unset

\* three URLs with a duplicate, settled out of input order: the first is
\* still being downloaded, the second failed and the third has its path
OrderPreservationWitness ==
  /\ dl.status = "running"
  /\ Len(urls) = MaxUrls
  /\ urls[1] = urls[3]
  /\ dl.results[1] = Unset
  /\ dl.results[2] = Failed
  /\ IsValidUrl(urls[2])
  /\ dl.results[3] = CachePath(urls[3])

Moved(w) ==
  \/ dl'.wpc[w] # dl.wpc[w]
  \/ dl'.item[w] # dl.item[w]
  \/ dl'.attempt[w] # dl.attempt[w]

\* what a step of worker w from the await of session.fetch does when the
\* answer was an OK response of type text/html
HtmlAnswerStep(w) ==
  Moved(w) /\ dl.wpc[w] = "fetch" /\ dl'.htmlAnswer[w] =>
    /\ dl'.wpc[w] = "delay"
    /\ dl'.attempt[w] = dl.attempt[w]
    /\ dl'.item[w] = dl.item[w]
    /\ dl'.fs[PathOf(w)] = Absent
    /\ dl'.results[dl.item[w].index] = Unset

\* what any step of worker w from the await of session.fetch does: no file
\* is written and no path becomes the result
FetchStep(w) ==
  Moved(w) /\ dl.wpc[w] = "fetch" =>
    /\ dl'.fs[PathOf(w)] \in {dl.fs[PathOf(w)], Absent}
    /\ dl'.results[dl.item[w].index] \in {Unset, Failed}

\* C7 - HTML-disguise rejection: an attempt whose response is OK with a
\* content type containing text/html never reaches the write of the file;
\* it is a failed attempt (the worker waits for the next attempt, or gives
\* up after the third), nothing is written to the cache path and the path
\* is not the item's result.
HtmlRejected ==
  /\ [](\A w \in Workers :
          dl.wpc[w] = "buffer" => dl.resp[w].ok /\ ~dl.resp[w].html)
  /\ [][\A w \in Workers : HtmlAnswerStep(w) /\ FetchStep(w)]_vars

\* the second attempt of an item was answered with an HTML page
HtmlRejectedWitness ==
  \E w \in Workers :
    /\ dl.htmlAnswer[w]
    /\ dl.wpc[w] = "delay"
    /\ dl.attempt[w] = 2
    /\ dl.results[dl.item[w].index] = Unset

\* the waits of the retry loop after failed attempts 1..n
Waits(n) == [k \in 1..n |-> 1500 * k]

\* the attempts and waits of worker w at its place in the retry loop
RetryState(w) ==
  /\ dl.attempt[w] <= 3
  /\ InHand(w) <=> dl.wpc[w] \in {"fetch", "buffer", "delay"}
  /\ InHand(w) => dl.results[dl.item[w].index] = Unset
  /\ dl.wpc[w] \in {"fetch", "buffer"} =>
       /\ dl.attempt[w] \in 1..3
       /\ dl.slept[w] = Waits(dl.attempt[w] - 1)
  /\ dl.wpc[w] = "delay" =>
       /\ dl.attempt[w] \in {1, 2}
       /\ dl.slept[w] = Waits(dl.attempt[w])

\* a step of worker w that ends an attempt
RetryStep(w) ==
  LET i == dl.item[w].index
      ends == dl.wpc[w] = "buffer" \/ dl'.wpc[w] # "buffer" IN
  InHand(w) /\ dl.wpc[w] # "delay" /\ Moved(w) =>
    /\ dl'.results[i] = CachePath(urls[i]) =>
         /\ dl.wpc[w] = "buffer"
         /\ dl.resp[w].size >= MIN_IMAGE_SIZE
    /\ dl'.results[i] = Failed => dl.attempt[w] = 3 /\ ends
    /\ ends /\ dl.attempt[w] = 3 => dl'.results[i] # Unset
    /\ ends /\ dl.attempt[w] < 3 /\ dl'.results[i] = Unset =>
         /\ dl'.wpc[w] = "delay"
         /\ dl'.item[w] = dl.item[w]
    /\ dl'.results[i] # Unset => dl'.item[w] # dl.item[w]

\* a step of worker w that ends a wait
DelayStep(w) ==
  dl.wpc[w] = "delay" /\ Moved(w) =>
    /\ dl'.wpc[w] = "fetch"
    /\ dl'.item[w] = dl.item[w]
    /\ dl'.attempt[w] = dl.attempt[w] + 1

\* C8 - retry budget: an item that is downloaded gets at most 3 attempts;
\* the worker leaves the item at the first attempt that succeeds, waits
\* 1500 ms after failed attempt 1 and 3000 ms after failed attempt 2, does
\* not wait after failed attempt 3, and records '' exactly when attempt 3
\* failed.
RetryBudget ==
  /\ [](\A w \in Workers : RetryState(w))
  /\ [][\A w \in Workers : RetryStep(w) /\ DelayStep(w)]_vars

\* a worker waits after its second failed attempt while an earlier item
\* was given up
RetryBudgetWitness ==
  \E w \in Workers :
    /\ dl.wpc[w] = "delay"
    /\ dl.attempt[w] = 2
    /\ dl.slept[w] = <<1500, 3000>>
    /\ \E i \in 1..Len(urls) :
         /\ IsValidUrl(urls[i])
         /\ dl.results[i] = Failed
         /\ Len(dl.events[i]) >= 1

\* C9 - batch isolation: whatever failures the items meet, no worker ends
\* with an error and downloadCharts does not reject; once every started
\* worker has ended the queue is empty and every item has a result and had
\* its callback, so the call resolves with a result for every item.
BatchIsolation ==
  /\ dl.status # "rejected"
  /\ \A w \in Workers : dl.wpc[w] # "rejected"
  /\ dl.status \in {"running", "resolved"}
       /\ (\A w \in 1..dl.started : dl.wpc[w] = "done") =>
       /\ dl.queue = <<>>
       /\ \A i \in 1..Len(urls) :
            /\ dl.results[i] # Unset
            /\ dl.callbacks[i] = 1

\* the call resolved: an item failed after its retries and a later item of
\* the list has its path
BatchIsolationWitness ==
  /\ dl.status = "resolved"
  /\ \E i, j \in 1..Len(urls) :
       /\ i < j
       /\ IsValidUrl(urls[i])
       /\ dl.results[i] = Failed
       /\ dl.events[i] = <<<<"missing">>, <<"fetch">>>>
       /\ dl.results[j] = CachePath(urls[j])
       /\ dl.events[j] = <<<<"missing">>, <<"fetch">>>>

\* C10 - invalid URL rejection: an item whose URL is empty or does not
\* start with 'http' never is in a worker's hands (no fetch, no wait) and
\* never touches the cache; its result is '' and it had one callback as soon
\* as a worker took it, and at the latest when the call resolves.
InvalidUrlRejected ==
  dl.status # "idle" =>
    \A i \in 1..Len(urls) :
      urls[i] = <<>> \/ ~StartsWith(urls[i], <<"h", "t", "t", "p">>) =>
        /\ dl.events[i] = <<>>
        /\ \A w \in Workers : dl.item[w].index # i
        /\ \/ dl.results[i] = Unset /\ dl.callbacks[i] = 0
           \/ dl.results[i] = Failed /\ dl.callbacks[i] = 1
        /\ (\A k \in 1..Len(dl.queue) : dl.queue[k].index # i) =>
             dl.results[i] = Failed
        /\ dl.status = "resolved" => dl.results[i] = Failed

\* an empty URL and a URL of another scheme were both skipped while a valid
\* item is waiting for a retry
InvalidUrlRejectedWitness ==
  /\ dl.status = "running"
  /\ \E i, j \in 1..Len(urls) :
       /\ urls[i] = UrlEmpty
       /\ urls[j] = UrlFtp
       /\ dl.results[i] = Failed /\ dl.callbacks[i] = 1
       /\ dl.results[j] = Failed /\ dl.callbacks[j] = 1
  /\ \E w \in Workers : dl.wpc[w] = "delay"


\* C15 - returned paths are valid files: when downloadCharts returns, every
\* non-empty path of its result is a file of the cache directory of at least
\* 1024 bytes.
ReturnedPathsValid ==
  dl.status = "resolved" =>
    \A i \in 1..Len(urls) :
      dl.results[i] # Failed =>
        /\ existsSync(dl, dl.results[i])
        /\ dl.fs[dl.results[i]] >= 1024

\* indexes of the items still in the queue
Queued == {dl.queue[k].index : k \in 1..Len(dl.queue)}

\* workers that have item i in hand
Holders(i) == {w \in Workers : InHand(w) /\ dl.item[w].index = i}

\* C30 - worker pool: downloadCharts starts min(2, N) workers; every item of
\* the queue is taken by exactly one worker exactly once (it is in the queue,
\* or in the hand of one worker, or done with one onDownloaded call and its
\* result written), at most 2 items are in progress at any time, and a result
\* is written only for an item that a worker took and finished.
WorkerPool ==
  dl.status # "idle" =>
    /\ dl.started = Min(concurrency, Len(urls))
    /\ Cardinality({w \in Workers : InHand(w)}) <= concurrency
    /\ \A i \in 1..Len(urls) :
         \/ i \in Queued /\ Holders(i) = {} /\ dl.callbacks[i] = 0
                         /\ dl.results[i] = Unset
         \/ i \notin Queued /\ Cardinality(Holders(i)) = 1 /\ dl.callbacks[i] = 0
                            /\ dl.results[i] = Unset
         \/ i \notin Queued /\ Holders(i) = {} /\ dl.callbacks[i] = 1
                            /\ dl.results[i] # Unset

\* items whose processing is finished
FinishedItems == {i \in 1..Len(urls) : dl.results[i] # Unset}

\* C34 - progress accounting: for an input of N URLs the progress callback is
\* invoked once per finished item whatever its outcome, N times in all when
\* the call resolves; the reported downloaded counts are 1, 2, ..., N in that
\* order, total (urls.length, which no step changes) is always N, and the
\* last callback has downloaded equal to total.
ProgressAccounting ==
  /\ [](dl.status # "idle" =>
         /\ dl.progress = [k \in 1..Len(dl.progress) |-> k]
         /\ Len(dl.progress) = Cardinality(FinishedItems)
         /\ Len(dl.progress) <= Len(urls)
         /\ \A i \in 1..Len(urls) :
              dl.callbacks[i] = IF i \in FinishedItems THEN 1 ELSE 0
         /\ dl.status = "resolved" =>
              /\ Len(dl.progress) = Len(urls)
              /\ Len(urls) > 0 => dl.progress[Len(dl.progress)] = Len(urls))
  /\ [][urls' = urls]_vars

\* the call resolved after MaxUrls callbacks for an invalid URL, an item
\* that failed and an item that has its path
ProgressAccountingWitness ==
  /\ dl.status = "resolved"
  /\ Len(urls) = MaxUrls
  /\ dl.progress = [k \in 1..MaxUrls |-> k]
  /\ \E i, j, k \in 1..Len(urls) :
       /\ ~IsValidUrl(urls[i])
       /\ IsValidUrl(urls[j]) /\ dl.results[j] = Failed
       /\ dl.results[k] = CachePath(urls[k])

\* C35 - downloader termination: when every fetch returns or throws, every
\* downloadCharts call eventually resolves, after at most 3 attempts per
\* item, with the queue empty and all N result entries set.
DownloaderTermination ==
  /\ [](dl.status # "idle" =>
         /\ \A w \in Workers : dl.attempt[w] <= 3
         /\ dl.status = "resolved" =>
              /\ dl.queue = <<>>
              /\ Len(dl.results) = Len(urls)
              /\ \A i \in 1..Len(urls) : dl.results[i] # Unset)
  /\ (dl.status = "running") ~> (dl.status = "resolved")

\* a call of MaxUrls valid URLs resolved after every item used its attempts
DownloaderTerminationWitness ==
  /\ dl.status = "resolved"
  /\ Len(urls) = MaxUrls
  /\ \A i \in 1..Len(urls) :
       /\ IsValidUrl(urls[i])
       /\ dl.results[i] = Failed
       /\ Len(dl.events[i]) >= 2

\* a step of worker w in which an attempt of its item fails: the worker goes
\* on to wait for the next attempt, or the item gets the result ''
AttemptFails(w) ==
  /\ Moved(w)
  /\ dl.wpc[w] \in {"fetch", "buffer"}
  /\ \/ dl'.wpc[w] = "delay" /\ dl'.item[w] = dl.item[w]
     \/ dl'.results[dl.item[w].index] = Failed

Overlap(v, w) == v # w /\ InHand(v) /\ InHand(w) /\ PathOf(v) = PathOf(w)

\* C32 - cache path races: two workers write, validate or delete the same
\* cache path at overlapping times only when two different input URLs map to
\* the same cache key, and in every such overlap the item whose worker
\* finished with success still has a file that passes validation.
CachePathRaces ==
  dl.status # "idle" =>
    /\ \A v, w \in Workers : Overlap(v, w) => dl.item[v].url # dl.item[w].url
    /\ \A i \in 1..Len(urls) :
         dl.results[i] \notin {Unset, Failed} =>
           /\ existsSync(dl, dl.results[i])
           /\ dl.fs[dl.results[i]] >= MIN_IMAGE_SIZE

\* C31 - independent workers: while one worker is inside the attempts or
\* retry delays of an item, the other worker keeps taking and finishing
\* items from the queue: an item never waits in the queue for the item of a
\* busy worker unless the other worker is busy with an item of its own, so
\* with N >= 2 items every item other than a slow one is completed without
\* waiting for the slow one to finish.
IndependentWorkers ==
  dl.status = "running" =>
    \A w \in Workers :
      InHand(w) /\ dl.queue # <<>> =>
        \E v \in Workers \ {w} : InHand(v) /\ dl.item[v].index # dl.item[w].index

\* no downloadCharts call
DLQuiet ==
  /\ urls = <<>>
  /\ dl = [status |-> "off"]

\* no session operation
SessionQuiet ==
  /\ InitSession
  /\ loggedIn

(***************************************************************************)
(* _waitForStableArray (lines 267-341) and its two calls in               *)
(* _fetchChartUrls (lines 620-638) in detail.  The lock lets one          *)
(* operation at a time be here, so the chart-URL operations are taken one *)
(* after the other.  The clock counts the delays of the code in           *)
(* milliseconds; a script evaluation takes no time on it.                 *)
(***************************************************************************)
\* chart-URL operations taken
MaxChartOps == 3
\* largest step-array length the page answers
MaxLen == 2

RequiredStableChecks == 6
PollMs == 500
ConfirmMs == 1500
ColdFetches == 2
ColdMaxWait == 30000
WarmMaxWait == 20000
ColdMinTotalWait == 4000
WarmMinTotalWait == 2000

\* what an evaluation of the length script gives: a length, or it throws
Threw == -1
NoRead == -2
Reads == (0..MaxLen) \cup {Threw}

\* only the very first wait is cold
IsFirstFetchOnce(n) == n <= 1

\* line 269: isFirstFetch, for the value n of fetchCount after line 268
IsFirstFetch(n) == n <= ColdFetches

\* lines 268-276: the wait starts; n is the incremented fetchCount
BeginWait(w, n) ==
  [w EXCEPT !.wpc = "poll",
            !.ret = 0,
            !.lastCount = 0,
            !.stableChecks = 0,
            !.elapsed = 0,
            !.maxWait = IF IsFirstFetch(n) THEN ColdMaxWait ELSE WarmMaxWait,
            !.minTotalWait = IF IsFirstFetch(n) THEN ColdMinTotalWait
                             ELSE WarmMinTotalWait,
            !.read = NoRead,
            !.run = 0,
            !.regrew = FALSE]

\* line 329 and the loop condition of line 282: the next poll, or the read
\* after the ceiling (line 333)
AfterDelay(w) ==
  LET e == w.elapsed + PollMs IN
  [w EXCEPT !.elapsed = e,
            !.wpc = IF e < w.maxWait THEN "poll" ELSE "final"]

\* the read c as the latest read: run counts the latest consecutive polls
\* that read a non-zero length equal to the read before them
Noted(w, c) ==
  [w EXCEPT !.read = c,
            !.run = IF c > 0 /\ c = w.read
                      THEN (IF w.run < RequiredStableChecks THEN w.run + 1 ELSE w.run)
                      ELSE 0]

\* lines 284-329: the poll's evaluation gives c
PollRead(w, c) ==
  LET v == Noted(w, c) IN
  IF c = Threw \/ c = 0
    THEN AfterDelay(v)
    ELSE IF c = w.lastCount
      THEN LET k == w.stableChecks + 1 IN
           IF k >= RequiredStableChecks /\ w.elapsed >= w.minTotalWait
             THEN \* delay(1500), then the confirmation read is awaited
                  [v EXCEPT !.stableChecks = k,
                            !.elapsed = @ + ConfirmMs,
                            !.wpc = "confirm"]
             ELSE AfterDelay([v EXCEPT !.stableChecks = k])
      ELSE AfterDelay([v EXCEPT !.stableChecks = 0, !.lastCount = c])

\* the confirmation read is not compared
ConfirmReadAccepting(w, c) ==
  IF c = Threw
    THEN AfterDelay([w EXCEPT !.read = c, !.run = 0])
    ELSE [w EXCEPT !.read = c, !.wpc = "returned", !.ret = w.lastCount]

\* lines 302-319 and 326-329: the confirmation read gives c (count is
\* lastCount here)
ConfirmRead(w, c) ==
  IF c = Threw
    THEN AfterDelay([w EXCEPT !.read = c, !.run = 0])
    ELSE IF c = w.lastCount
      THEN [w EXCEPT !.read = c, !.wpc = "returned", !.ret = w.lastCount]
      ELSE AfterDelay([w EXCEPT !.read = c, !.run = 0, !.regrew = TRUE,
                                !.stableChecks = 0, !.lastCount = c])

\* after the ceiling the last reference length is returned, not the read
FinalReadLast(w, c) ==
  IF c = Threw
    THEN [w EXCEPT !.read = c, !.wpc = "none", !.l = "failed"]
    ELSE [w EXCEPT !.read = c, !.wpc = "returned", !.ret = w.lastCount]

\* lines 333-340: the read after the ceiling gives c (outside any try: when
\* it throws, the operation fails)
FinalRead(w, c) ==
  IF c = Threw
    THEN [w EXCEPT !.read = c, !.wpc = "none", !.l = "failed"]
    ELSE [w EXCEPT !.read = c, !.wpc = "returned", !.ret = c]

\* no chart-URL operation yet
NoChartOp ==
  [opNo |-> 0, l |-> "idle", wpc |-> "none", ret |-> 0, lastCount |-> 0,
   stableChecks |-> 0, elapsed |-> 0, maxWait |-> 0, minTotalWait |-> 0,
   firstMaxWait |-> 0, firstMinTotalWait |-> 0, fallbacks |-> 0,
   read |-> NoRead, run |-> 0, regrew |-> FALSE]

WaitQuiet ==
  /\ fetchCount = 0
  /\ sw = NoChartOp

\* positions at which a chart-URL operation has left the stability waits
\* (the label wait and the extraction follow "ch_labels")
LeftWaitPcs == {"idle", "ch_labels", "finally_empty", "failed"}

\* line 620: a chart-URL operation calls its first stability wait
FirstWait ==
  /\ sw.l \in LeftWaitPcs
  /\ sw.opNo < MaxChartOps
  /\ fetchCount' = fetchCount + 1
  /\ LET w == BeginWait([NoChartOp EXCEPT !.opNo = sw.opNo + 1, !.l = "ch_stable1"],
                        fetchCount + 1) IN
     sw' = [w EXCEPT !.firstMaxWait = w.maxWait,
                     !.firstMinTotalWait = w.minTotalWait]
  /\ UNCHANGED <<sessionVars, dlVars, op, dom, uiVars>>

Poll ==
  /\ sw.wpc = "poll"
  /\ \E c \in Reads : sw' = PollRead(sw, c)
  /\ UNCHANGED <<sessionVars, dlVars, op, dom, uiVars, fetchCount>>

Confirm ==
  /\ sw.wpc = "confirm"
  /\ \E c \in Reads : sw' = ConfirmRead(sw, c)
  /\ UNCHANGED <<sessionVars, dlVars, op, dom, uiVars, fetchCount>>

Final ==
  /\ sw.wpc = "final"
  /\ \E c \in Reads : sw' = FinalRead(sw, c)
  /\ UNCHANGED <<sessionVars, dlVars, op, dom, uiVars, fetchCount>>

\* lines 620-638 after a wait returned: the fallback script is evaluated, or
\* the empty result is returned, or the label wait begins
WaitReturned ==
  /\ sw.wpc = "returned"
  /\ LET l == AfterStable(sw.l, sw.ret) IN
     sw' = [sw EXCEPT !.wpc = "none",
                      !.l = IF l = "ch_zero2" THEN "finally_empty" ELSE l]
  /\ UNCHANGED <<sessionVars, dlVars, op, dom, uiVars, fetchCount>>

\* lines 625-632: the fallback script was evaluated (it may throw); after
\* delay(1000) the second stability wait is called
Fallback ==
  /\ sw.l = "ch_fallback"
  /\ \/ /\ sw' = [sw EXCEPT !.l = "failed"]
        /\ UNCHANGED fetchCount
     \/ /\ fetchCount' = fetchCount + 1
        /\ sw' = BeginWait([sw EXCEPT !.l = "ch_stable2", !.fallbacks = @ + 1],
                           fetchCount + 1)
  /\ UNCHANGED <<sessionVars, dlVars, op, dom, uiVars>>

NextWait ==
  \/ FirstWait
  \/ Poll
  \/ Confirm
  \/ Final
  \/ WaitReturned
  \/ Fallback

(***************************************************************************)
(* The session operations one after the other (the lock admits one at a   *)
(* time), each from its call to its finally block, with the clock of the  *)
(* stage it is in: op.t counts the milliseconds slept since the stage     *)
(* began (a script evaluation takes no time on it), op.w is the running   *)
(* stability wait.  op.seen, op.loaded, op.navs and op.selects record     *)
(* what the current stage has read and done.                              *)
(***************************************************************************)
\* operations called
MaxTimedOps == 2

NavigationTimeoutMs == 15000
SettleMs == 3000
ListMaxWaitMs == 8000
ListIntervalMs == 500
ListBufferMs == 500
MinOptions == 10
VerifyDelayMs == 500
RetryPauseMs == 2000
FallbackDelayMs == 1000
labelMaxWait == 8000
PartialAfterMs == 4000
LabelIntervalMs == 500

\* when did-finish-load comes after the navigation: soon, or after the timeout
LoadMs == {500, NavigationTimeoutMs + 5000}

\* what the list condition finds: no list yet (0 stands for a falsy result),
\* the minimum, one more option
OptionReads == {Threw, 0, MinOptions, MinOptions + 1}

\* the private methods a public method calls in its try block, in order
\* (lines 346, 478, 494-495, 513-514)
Phases(k) ==
  CASE k = "catalog" -> <<"catalog">>
    [] k = "combined" -> <<"catalog", "chart">>
    [] k = "ppt" -> <<"type", "chart">>
    [] OTHER -> <<"chart">>

NoTimedOp ==
  [no |-> 0, pc |-> "idle", phase |-> "none", rest |-> <<>>, t |-> 0, navs |-> 0,
   seen |-> NoRead, loaded |-> FALSE, selects |-> 0, expected |-> 0, w |-> NoChartOp]

OpQuiet == op = NoTimedOp

\* a stage begins: its clock and its records start afresh
Fresh(o, l) ==
  [o EXCEPT !.pc = l, !.t = 0, !.navs = 0, !.seen = NoRead, !.loaded = FALSE,
            !.selects = 0]

\* a private method returned: the next one is called, or the try block returns
NextPhase(o) ==
  IF o.rest = <<>>
    THEN Fresh(o, "finally_ok")
    ELSE [Fresh(o, "ensure") EXCEPT !.phase = Head(o.rest), !.rest = Tail(o.rest)]

\* an awaited evaluation threw outside any try block
Raise(o) == Fresh([o EXCEPT !.w = NoChartOp], "finally_err")

\* the timer does not advance the clock
SleptNot(o, ms) == o

\* this.delay(ms), or another timer of ms milliseconds, has fired
Slept(o, ms) == [o EXCEPT !.t = @ + ms]

\* the settle delay is left out
SettledAtOnce(o) == [o EXCEPT !.pc = FirstPc(o.phase)]

\* line 230: delay(3000), then ensureSearchPage returns to the private method
Settled(o) == [Slept(o, SettleMs) EXCEPT !.pc = FirstPc(o.phase)]

\* where waitForCondition's caller waits next (lines 391 and 573)
BufferPc(l) == IF l = "cat_wait" THEN "cat_delay" ELSE "ppt_delay"

\* the list condition with >= in the place of >
ReadyAtMinimum(n) == n >= MinOptions

\* lines 384 and 569: the list element exists and options.length > 10
Ready(n) == n > MinOptions

\* waitForCondition, lines 244-253: one round of the loop with the read n
ConditionPoll(o, n) ==
  IF n # Threw /\ Ready(n)
    THEN [o EXCEPT !.seen = n, !.loaded = TRUE, !.pc = BufferPc(o.pc)]
    ELSE LET d == Slept([o EXCEPT !.seen = n], ListIntervalMs) IN
         IF d.t < ListMaxWaitMs THEN d ELSE [d EXCEPT !.pc = BufferPc(o.pc)]

\* the selection is set again after every re-read that differs
VerifySelectionAgain(o, match) ==
  [o EXCEPT !.seen = IF match THEN 1 ELSE 0,
            !.pc = IF ~match THEN "ch_retry" ELSE "ch_stable1"]

\* lines 597 and 615: after the first re-read a mismatch leads to the retry;
\* otherwise, and after the second re-read, the stability wait is next
VerifySelection(o, match) ==
  [o EXCEPT !.seen = IF match THEN 1 ELSE 0,
            !.pc = IF o.pc = "ch_verify" /\ ~match THEN "ch_retry" ELSE "ch_stable1"]

\* line 642: lastCount || 1
ExpectedCount(n) == IF n = 0 THEN 1 ELSE n

\* lines 645-659: one round of the label wait with the label count n
LabelPoll(o, n) ==
  IF n >= ExpectedCount(o.expected) \/ (n > 0 /\ o.t > PartialAfterMs)
    THEN [o EXCEPT !.seen = n, !.pc = "ch_inline"]
    ELSE LET d == Slept([o EXCEPT !.seen = n], LabelIntervalMs) IN
         IF d.t < labelMaxWait THEN d ELSE [d EXCEPT !.pc = "ch_inline"]

\* the stability wait of o has made a read and is now w2 (lines 620-638)
AfterRead(o, w2) ==
  IF w2.l = "failed"
    THEN Raise(o)
    ELSE IF w2.wpc = "returned"
      THEN LET l == AfterStable(o.pc, w2.ret) IN
           [Fresh(o, IF l = "ch_zero2" THEN "finally_empty" ELSE l)
              EXCEPT !.w = NoChartOp, !.expected = w2.ret]
      ELSE [o EXCEPT !.w = w2]

timedFrame == <<mutexQueue, pc, phase, kind, argType, argProduct, slArea, slLista,
                lastEval, evalClosed, typeSetBy, productSetBy, lastPptSet, dlVars, sw,
                dom, uiVars>>

\* a step that changes the operation only
TStep(o) ==
  /\ op' = o
  /\ UNCHANGED <<timedFrame, fetchCount, loggedIn, onSearchPage, mutexLocked>>

\* a public method is called while the lock is free (lines 177-179)
TCall ==
  /\ op.pc \in {"idle", "done", "failed"}
  /\ op.no < MaxTimedOps
  /\ ~mutexLocked
  /\ mutexLocked' = TRUE
  /\ \E k \in Kinds :
       op' = [NoTimedOp EXCEPT !.no = op.no + 1, !.pc = "acquired", !.rest = Phases(k)]
  /\ UNCHANGED <<timedFrame, fetchCount, loggedIn, onSearchPage>>

\* the await of acquireLock resumes
TResume ==
  /\ op.pc = "acquired"
  /\ TStep(NextPhase(op))

\* ensureSearchPage, lines 205-220
TEnsure ==
  /\ op.pc = "ensure"
  /\ IF ~loggedIn
       THEN TStep(Fresh(op, "finally_auth"))
       ELSE IF onSearchPage
         THEN TStep(Fresh(op, FirstPc(op.phase)))
         ELSE \/ TStep([Fresh(op, "nav") EXCEPT !.navs = 1])
              \/ TStep(Raise(op))

\* lines 222-228: did-finish-load after ms milliseconds, or the timeout
TNavigationWait ==
  /\ op.pc = "nav"
  /\ \E ms \in LoadMs :
       /\ op' = [Slept(op, Min(ms, NavigationTimeoutMs)) EXCEPT !.pc = "settle"]
       /\ onSearchPage' = (ms < NavigationTimeoutMs)
  /\ UNCHANGED <<timedFrame, fetchCount, loggedIn, mutexLocked>>

\* line 230
TSettle ==
  /\ op.pc = "settle"
  /\ TStep(Settled(op))

\* lines 544-551
TEnsureTypeRead ==
  /\ op.pc = "ppt_read"
  /\ \/ TStep(NextPhase(op))
     \/ TStep(Fresh(op, "ppt_set"))
     \/ TStep(Raise(op))

\* lines 377-379 and 562-564
TSetType ==
  /\ op.pc \in {"cat_set", "ppt_set"}
  /\ \/ TStep(Fresh(op, IF op.pc = "cat_set" THEN "cat_wait" ELSE "ppt_wait"))
     \/ TStep(Raise(op))

\* waitForCondition, lines 237-254, as called on lines 382 and 567
TConditionPoll ==
  /\ op.pc \in {"cat_wait", "ppt_wait"}
  /\ \E n \in OptionReads : TStep(ConditionPoll(op, n))

\* lines 391 and 573: delay(500)
TListBuffer ==
  /\ op.pc \in {"cat_delay", "ppt_delay"}
  /\ LET d == Slept(op, ListBufferMs) IN
     TStep(IF op.pc = "cat_delay" THEN [d EXCEPT !.pc = "cat_extract"]
           ELSE NextPhase(d))

\* lines 396-472
TCatalogExtract ==
  /\ op.pc = "cat_extract"
  /\ \/ TStep(NextPhase(op))
     \/ TStep(Raise(op))

\* lines 581-584
TChartReset ==
  /\ op.pc = "ch_reset"
  /\ \/ TStep(Fresh(op, "ch_select"))
     \/ TStep(Raise(op))

\* lines 588-590 and 607-609
TChartSelect ==
  /\ op.pc \in {"ch_select", "ch_reselect"}
  /\ \/ TStep([op EXCEPT !.selects = @ + 1,
                         !.pc = IF op.pc = "ch_select" THEN "ch_pause" ELSE "ch_repause"])
     \/ TStep(Raise(op))

\* lines 593 and 610: delay(500)
TVerifyDelay ==
  /\ op.pc \in {"ch_pause", "ch_repause"}
  /\ TStep([Slept(op, VerifyDelayMs)
              EXCEPT !.pc = IF op.pc = "ch_pause" THEN "ch_verify" ELSE "ch_reverify"])

\* lines 594-597 and 611-620: the re-read; the stability wait is called when
\* no retry follows
TChartVerify ==
  /\ op.pc \in {"ch_verify", "ch_reverify"}
  /\ \/ /\ \E match \in BOOLEAN :
             LET o == VerifySelection(op, match) IN
             IF o.pc = "ch_stable1"
               THEN /\ fetchCount' = fetchCount + 1
                    /\ op' = [o EXCEPT !.w = BeginWait(NoChartOp, fetchCount + 1)]
               ELSE /\ op' = o
                    /\ UNCHANGED fetchCount
        /\ UNCHANGED <<timedFrame, loggedIn, onSearchPage, mutexLocked>>
     \/ TStep(Raise(op))

\* line 606: delay(2000)
TRetryPause ==
  /\ op.pc = "ch_retry"
  /\ TStep([Slept(op, RetryPauseMs) EXCEPT !.pc = "ch_reselect"])

\* _waitForStableArray: a read of the running wait
TStableRead ==
  /\ op.pc \in {"ch_stable1", "ch_stable2"}
  /\ \E c \in Reads :
       TStep(AfterRead(Fresh(op, op.pc),
                       CASE op.w.wpc = "poll" -> PollRead(op.w, c)
                         [] op.w.wpc = "confirm" -> ConfirmRead(op.w, c)
                         [] OTHER -> FinalRead(op.w, c)))

\* lines 625-630
TFallback ==
  /\ op.pc = "ch_fallback"
  /\ \/ TStep(Fresh(op, "ch_fbdelay"))
     \/ TStep(Raise(op))

\* lines 631-632: delay(1000), then the second stability wait is called
TFallbackDelay ==
  /\ op.pc = "ch_fbdelay"
  /\ fetchCount' = fetchCount + 1
  /\ op' = [Slept(op, FallbackDelayMs)
              EXCEPT !.pc = "ch_stable2", !.w = BeginWait(NoChartOp, fetchCount + 1)]
  /\ UNCHANGED <<timedFrame, loggedIn, onSearchPage, mutexLocked>>

\* lines 645-659; the read is outside any try block
TLabelPoll ==
  /\ op.pc = "ch_labels"
  /\ \E n \in Reads :
       TStep(IF n = Threw THEN Raise(op) ELSE LabelPoll(op, n))

\* lines 662-669
TChartInline ==
  /\ op.pc = "ch_inline"
  /\ \/ TStep(Fresh(op, "ch_extract"))
     \/ TStep(Raise(op))

\* lines 673-750
TChartExtract ==
  /\ op.pc = "ch_extract"
  /\ \/ TStep(NextPhase(op))
     \/ TStep(Raise(op))

\* the finally block: releaseLock with no waiter (lines 187-193)
TFinally ==
  /\ op.pc \in FinallyPcs
  /\ mutexLocked' = FALSE
  /\ op' = [op EXCEPT !.pc = IF op.pc \in {"finally_ok", "finally_empty"}
                               THEN "done" ELSE "failed"]
  /\ UNCHANGED <<timedFrame, fetchCount, loggedIn, onSearchPage>>

\* the continuations of the operation inside the lock
TRun ==
  \/ TResume
  \/ TEnsure
  \/ TNavigationWait
  \/ TSettle
  \/ TEnsureTypeRead
  \/ TSetType
  \/ TConditionPoll
  \/ TListBuffer
  \/ TCatalogExtract
  \/ TChartReset
  \/ TChartSelect
  \/ TVerifyDelay
  \/ TChartVerify
  \/ TRetryPause
  \/ TStableRead
  \/ TFallback
  \/ TFallbackDelay
  \/ TLabelPoll
  \/ TChartInline
  \/ TChartExtract
  \/ TFinally

NextTimed ==
  \/ TCall
  \/ TRun

(***************************************************************************)
(* The extraction script of _fetchChartUrls, lines 673-746, as a function *)
(* of the page: arrLinkImmagini (strings), the label cells                *)
(* td[onclick*="changeImgValidity"] and the validity buttons (their       *)
(* textContent).  Strings are sequences of characters; step indexes are   *)
(* the source's (from 0).                                                 *)
(***************************************************************************)
PROMETEO_BASE_URL ==
  <<"h", "t", "t", "p", "s", ":", "/", "/", "p", "r", "o", "m", "e", "t", "e", "o",
    "2", ".", "m", "e", "t", "e", "o", "a", "m", ".", "i", "t">>

Separator == <<"-", "-", "-">>

\* entries of arrLinkImmagini: an absolute path with an inline label; a
\* relative path with a date; a relative path with a blank inline label; a
\* bare relative path; digits that are no date; the empty string; an entry
\* with two separators
Entries ==
  { <<"h", "t", "t", "p", ":", "a", "-", "-", "-", " ", "I", " ">>,
    <<"H", "5", "_", "2", "0", "2", "6", "0", "2", "0", "9", "0", "6", ".", "p">>,
    <<"b", "-", "-", "-", " ">>,
    <<"c">>,
    <<"2", "0", "2", "6", "1", "3", "0", "9", "0", "6", "3", "0">>,
    <<>>,
    <<"d", "-", "-", "-", "J", "-", "-", "-", "K">> }

\* textContent of a label cell and of a validity button
CellTexts == {<<>>, <<" ">>, <<" ", "L">>}
ButtonTexts == {<<>>, <<"B">>}

SeqsUpTo(S, n) == UNION {[1..k -> S] : k \in 0..n}

\* String.prototype.split('---')
RECURSIVE Split(_)
Split(u) ==
  LET hits == {k \in 1..(Len(u) - 2) : SubSeq(u, k, k + 2) = Separator} IN
  IF hits = {}
    THEN <<u>>
    ELSE LET k == CHOOSE h \in hits : \A g \in hits : h <= g IN
         <<SubSeq(u, 1, k - 1)>> \o Split(SubSeq(u, k + 3, Len(u)))

\* String.prototype.trim
RECURSIVE Trim(_)
Trim(u) ==
  IF u = <<>> THEN u
  ELSE IF Head(u) = " " THEN Trim(Tail(u))
  ELSE IF u[Len(u)] = " " THEN Trim(SubSeq(u, 1, Len(u) - 1))
  ELSE u

Digits == <<"0", "1", "2", "3", "4", "5", "6", "7", "8", "9">>
IsDigit(c) == \E d \in 1..10 : Digits[d] = c
DigitValue(c) == (CHOOSE d \in 1..10 : Digits[d] = c) - 1

\* the number written by the two characters u[k], u[k + 1]
Two(u, k) == 10 * DigitValue(u[k]) + DigitValue(u[k + 1])

\* String(n).padStart(width, '0')
RECURSIVE PadStart(_, _)
PadStart(n, width) ==
  IF width = 0 THEN <<>>
  ELSE PadStart(n \div 10, width - 1) \o <<Digits[(n % 10) + 1]>>

\* the date of 'YYYY-MM-DDTHH:MM:00Z' is valid (dates of the model have a
\* day that exists in their month)
ValidDate(month, day, hour, min) ==
  /\ month \in 1..12
  /\ day \in 1..31
  /\ hour \in 0..23
  /\ min \in 0..59

\* Date.prototype.getUTCDay, 0 for Sunday
getUTCDay(year, month, day) ==
  LET t == <<0, 3, 2, 5, 0, 3, 5, 1, 4, 6, 2, 4>>
      y == IF month < 3 THEN year - 1 ELSE year IN
  (y + (y \div 4) - (y \div 100) + (y \div 400) + t[month] + day) % 7

days ==
  << <<"S", "u", "n">>, <<"M", "o", "n">>, <<"T", "u", "e">>, <<"W", "e", "d">>,
     <<"T", "h", "u">>, <<"F", "r", "i">>, <<"S", "a", "t">> >>

\* lines 690-700: the weekday, day and time of the first run of 10 digits of
\* the path (12 when two more digits follow), '' when there is none or when
\* they are no date
labelFromPath(path) ==
  LET hits == {k \in 1..(Len(path) - 9) : \A j \in k..(k + 9) : IsDigit(path[j])} IN
  IF hits = {}
    THEN <<>>
    ELSE
      LET k == CHOOSE h \in hits : \A g \in hits : h <= g
          year == 100 * Two(path, k) + Two(path, k + 2)
          month == Two(path, k + 4)
          day == Two(path, k + 6)
          hour == Two(path, k + 8)
          min == IF k + 11 <= Len(path) /\ IsDigit(path[k + 10]) /\ IsDigit(path[k + 11])
                   THEN Two(path, k + 10) ELSE 0 IN
      IF ~ValidDate(month, day, hour, min)
        THEN <<>>
        ELSE days[getUTCDay(year, month, day) + 1] \o <<" ">> \o PadStart(day, 2)
               \o <<" ">> \o PadStart(hour, 2) \o <<":">> \o PadStart(min, 2)

\* list[i] && list[i].textContent.trim(), '' when there is no such node
NodeText(list, i) == IF i + 1 <= Len(list) THEN Trim(list[i + 1]) ELSE <<>>

\* line 715
Synthetic(i) == <<"T", "+">> \o PadStart(i, 3)

\* the date of the path is preferred to the nodes of the page
StepLabelDateFirst(parts, tds, validBtns, i) ==
  LET label == IF Len(parts) > 1 THEN Trim(parts[2]) ELSE <<>> IN
  IF label # <<>> THEN label
  ELSE IF labelFromPath(parts[1]) # <<>> THEN labelFromPath(parts[1])
  ELSE IF NodeText(tds, i) # <<>> THEN NodeText(tds, i)
  ELSE IF NodeText(validBtns, i) # <<>> THEN NodeText(validBtns, i)
  ELSE Synthetic(i)

\* lines 704-718
StepLabel(parts, tds, validBtns, i) ==
  LET label == IF Len(parts) > 1 THEN Trim(parts[2]) ELSE <<>> IN
  IF label # <<>> THEN label
  ELSE IF NodeText(tds, i) # <<>> THEN NodeText(tds, i)
  ELSE IF NodeText(validBtns, i) # <<>> THEN NodeText(validBtns, i)
  ELSE IF labelFromPath(parts[1]) # <<>> THEN labelFromPath(parts[1])
  ELSE Synthetic(i)

\* the path is taken as it is
ImageUrlAsIs(relativePath) == relativePath

\* lines 720-723
ImageUrl(relativePath) ==
  IF StartsWith(relativePath, <<"h", "t", "t", "p">>)
    THEN relativePath
    ELSE PROMETEO_BASE_URL \o <<"/">> \o relativePath

\* lines 700-731: the steps of the page
Steps(arr, tds, validBtns) ==
  [k \in 1..Len(arr) |->
     LET parts == Split(arr[k]) IN
     [label |-> StepLabel(parts, tds, validBtns, k - 1),
      index |-> k - 1,
      imageUrl |-> ImageUrl(parts[1])]]

DomQuiet ==
  dom = [arrLinkImmagini |-> <<>>, tds |-> <<>>, validBtns |-> <<>>,
         extracted |-> FALSE, steps |-> <<>>]

\* the page when the extraction script runs
InitDom ==
  \E a \in SeqsUpTo(Entries, MaxLen), c \in SeqsUpTo(CellTexts, MaxLen),
     b \in SeqsUpTo(ButtonTexts, MaxLen) :
    dom = [arrLinkImmagini |-> a, tds |-> c, validBtns |-> b,
           extracted |-> FALSE, steps |-> <<>>]

\* lines 673-750: the script runs and chartData.steps is returned
Extract ==
  /\ ~dom.extracted
  /\ dom' = [dom EXCEPT !.extracted = TRUE,
                        !.steps = Steps(dom.arrLinkImmagini, dom.tds, dom.validBtns)]
  /\ UNCHANGED <<sessionVars, dlVars, waitVars, op, uiVars>>

NextExtract == Extract

(***************************************************************************)
(* registerPrometeoIpc (prometeo.ipc.ts, lines 7-89): the six handlers.   *)
(* Each awaits one service call inside a try block; several invocations   *)
(* may be awaiting at once.                                               *)
(***************************************************************************)
\* invocations made
MaxInvokes == 2

Channels == {"prometeo:fetch-catalog", "prometeo:fetch-catalog-and-chart-urls",
             "prometeo:fetch-chart-urls-for-ppt", "prometeo:fetch-chart-urls",
             "prometeo:fetch-image", "prometeo:download-charts"}

\* the handlers that send the result through JSON
JsonChannels == Channels \ {"prometeo:fetch-image", "prometeo:download-charts"}

EmptyCatalog == [products |-> <<>>, categories |-> <<>>, types |-> <<>>, areas |-> <<>>]
EmptyChartUrls == [productName |-> "", date |-> "", steps |-> <<>>]
SomeCatalog == [products |-> <<"42">>, categories |-> <<"c">>, types |-> <<"t">>,
                areas |-> <<"a">>]
SomeChartUrls == [productName |-> "n", date |-> "d", steps |-> <<"s0", "s1">>]

\* a value JSON.stringify throws on
NotSerializable == [circular |-> TRUE]
Null == [null |-> TRUE]

\* what the awaited service call does: it returns a value, or it throws an
\* Error with a message, or it throws a value that is no Error
Returned(ch) ==
  CASE ch = "prometeo:fetch-catalog" -> {SomeCatalog, NotSerializable}
    [] ch = "prometeo:fetch-catalog-and-chart-urls" ->
         {[catalog |-> SomeCatalog, chartUrls |-> SomeChartUrls],
          [catalog |-> SomeCatalog, chartUrls |-> EmptyChartUrls]}
    [] ch = "prometeo:fetch-image" -> {"data:image/png;base64,"}
    [] ch = "prometeo:download-charts" -> {<<"p", "">>}
    [] OTHER -> {SomeChartUrls, EmptyChartUrls}

Outcomes(ch) ==
  {[throws |-> FALSE, value |-> v] : v \in Returned(ch)} \cup
  {[throws |-> TRUE, value |-> [isError |-> TRUE, message |-> "Not authenticated"]],
   [throws |-> TRUE, value |-> [isError |-> FALSE, message |-> "x"]]}

\* `${name}: ${message}` of Error.prototype.toString, the string itself for
\* the thrown string
String(err) == IF err.isError THEN <<"Error: ", err.message>> ELSE <<err.message>>

\* err instanceof Error ? err.message : String(err)
Msg(err) == IF err.isError THEN <<err.message>> ELSE String(err)

\* JSON.parse(JSON.stringify(result)): the plain results come back as they
\* are; for a value that cannot be serialized a TypeError is thrown
JsonRoundTrip(result) ==
  IF result = NotSerializable
    THEN [throws |-> TRUE,
          value |-> [isError |-> TRUE,
                     message |-> "Converting circular structure to JSON"]]
    ELSE [throws |-> FALSE, value |-> result]

\* the catch block lets the error through
CaughtRethrown(ch, err) == [rejected |-> TRUE]

\* the catch block of the handler of channel ch
Caught(ch, err) ==
  CASE ch = "prometeo:fetch-catalog" ->
         [products |-> <<>>, categories |-> <<>>, types |-> <<>>, areas |-> <<>>,
          error |-> Msg(err)]
    [] ch = "prometeo:fetch-catalog-and-chart-urls" ->
         [catalog |-> [products |-> <<>>, categories |-> <<>>, types |-> <<>>,
                       areas |-> <<>>],
          chartUrls |-> [productName |-> "", date |-> "", steps |-> <<>>],
          error |-> Msg(err)]
    [] ch = "prometeo:fetch-image" -> [dataUrl |-> Null, error |-> Msg(err)]
    [] ch = "prometeo:download-charts" -> [localPaths |-> <<>>, error |-> String(err)]
    [] OTHER -> [productName |-> "", date |-> "", steps |-> <<>>, error |-> Msg(err)]

\* the try block after the service call returned
Tried(ch, result) ==
  CASE ch = "prometeo:fetch-image" -> [throws |-> FALSE, value |-> [dataUrl |-> result]]
    [] ch = "prometeo:download-charts" ->
         [throws |-> FALSE, value |-> [localPaths |-> result]]
    [] OTHER -> JsonRoundTrip(result)

\* what the handler's promise settles with for the outcome o of the service
Handled(ch, o) ==
  IF o.throws
    THEN Caught(ch, o.value)
    ELSE LET t == Tried(ch, o.value) IN
         IF t.throws THEN Caught(ch, t.value) ELSE t.value

Invocations == 1..MaxInvokes
NoInvocation == [state |-> "none", channel |-> "", outcome |-> <<>>, reply |-> <<>>]

IpcQuiet == ipc = [c \in {} |-> NoInvocation]

InitIpc == ipc = [c \in Invocations |-> NoInvocation]

\* the renderer invokes channel ch: the handler runs to its await
IpcInvoke(c, ch) ==
  /\ ipc[c].state = "none"
  /\ \A b \in Invocations : b < c => ipc[b].state # "none"
  /\ ipc' = [ipc EXCEPT ![c] = [NoInvocation EXCEPT !.state = "awaiting",
                                                    !.channel = ch]]
  /\ UNCHANGED <<sessionVars, dlVars, waitVars, op, dom, store>>

\* the service call of invocation c settles and the handler runs to its end
IpcSettle(c) ==
  /\ ipc[c].state = "awaiting"
  /\ \E o \in Outcomes(ipc[c].channel) :
       LET r == Handled(ipc[c].channel, o) IN
       ipc' = [ipc EXCEPT ![c] = [state |-> IF r = [rejected |-> TRUE]
                                              THEN "rejected" ELSE "resolved",
                                  channel |-> ipc[c].channel,
                                  outcome |-> o,
                                  reply |-> r]]
  /\ UNCHANGED <<sessionVars, dlVars, waitVars, op, dom, store>>

NextIpc == \E c \in Invocations : (\E ch \in Channels : IpcInvoke(c, ch)) \/ IpcSettle(c)

(***************************************************************************)
(* useProductsStore.selectProduct (products.store.ts, lines 97-111) and   *)
(* the fetchChartUrls invocations it awaits.  The main process serves the *)
(* invocations one at a time in the order of their calls (the lock of     *)
(* PrometeoService), so they settle in that order.                        *)
(***************************************************************************)
\* selectProduct calls made
MaxSelects == 4

Products == {"42", "43"}
NoProduct == "null"

\* the steps of the page for product p
StepsOf(p) == << [index |-> 0, imageUrl |-> <<p, "0">>], [index |-> 1, imageUrl |-> <<p, "1">>] >>

\* what the invocation for product p settles with: the chart data of p, the
\* empty result (no steps on the page, or the handler's answer to an error),
\* or a rejection
Settlements(p) ==
  {[rejects |-> FALSE, steps |-> StepsOf(p), productName |-> p, date |-> "d"],
   [rejects |-> FALSE, steps |-> <<>>, productName |-> "", date |-> ""],
   [rejects |-> TRUE, steps |-> <<>>, productName |-> "", date |-> ""]}

\* the store before any selectProduct call (lines 56-61)
InitialStore ==
  [selectedProduct |-> NoProduct, availableSteps |-> <<>>, isLoadingSteps |-> FALSE,
   productName |-> "", productDate |-> "", inFlight |-> <<>>, calls |-> 0]

StoreQuiet == store = [calls |-> 0]

InitStore == store = InitialStore

\* lines 101-106: the set after the await
Resolved(st, p, r) ==
  [st EXCEPT !.availableSteps = r.steps,
             !.productName = r.productName,
             !.productDate = r.date,
             !.isLoadingSteps = FALSE]

\* lines 107-110: the catch block
Rejected(st) == [st EXCEPT !.isLoadingSteps = FALSE]

\* lines 97-100: selectProduct(product) up to its await
selectProduct(p) ==
  /\ store.calls < MaxSelects
  /\ store' = [store EXCEPT !.selectedProduct = p,
                            !.isLoadingSteps = TRUE,
                            !.availableSteps = <<>>,
                            !.inFlight = Append(@, p),
                            !.calls = @ + 1]
  /\ UNCHANGED <<sessionVars, dlVars, waitVars, op, dom, ipc>>

\* the oldest invocation settles and its selectProduct call runs to its end
StepsArrive ==
  /\ store.inFlight # <<>>
  /\ LET p == Head(store.inFlight)
         st == [store EXCEPT !.inFlight = Tail(@)] IN
     \E r \in Settlements(p) :
       store' = IF r.rejects THEN Rejected(st) ELSE Resolved(st, p, r)
  /\ UNCHANGED <<sessionVars, dlVars, waitVars, op, dom, ipc>>

NextStore == (\E p \in Products : selectProduct(p)) \/ StepsArrive

(***************************************************************************)
(* Properties of the stability wait.                                      *)
(***************************************************************************)
\* the step is a read of the running wait
ReadStep == sw' # sw /\ sw.wpc \in {"poll", "confirm", "final"}

\* C11: once the stability condition is met the wait does not return the
\* count before one further read taken 1.5 s later: a poll never returns, it
\* passes to the confirmation read with the clock 1500 ms on, and inside the
\* ceiling only a confirmation read equal to the candidate returns (that
\* candidate).  A confirmation read that differs resets the stability
\* counter to 0, becomes the reference length, and the wait goes on (500 ms
\* later with the next poll, or with the read after the ceiling).
StabilityConfirmation ==
  [][ReadStep =>
       /\ sw.wpc = "poll" =>
            /\ sw'.wpc # "returned"
            /\ sw'.wpc = "confirm" =>
                 /\ sw'.elapsed = sw.elapsed + ConfirmMs
                 /\ sw'.lastCount = sw.lastCount
                 /\ sw'.stableChecks >= RequiredStableChecks
       /\ sw.wpc = "confirm" /\ sw'.read = sw.lastCount =>
            /\ sw'.wpc = "returned"
            /\ sw'.ret = sw.lastCount
       /\ sw.wpc = "confirm" /\ sw'.read \notin {sw.lastCount, Threw} =>
            /\ sw'.stableChecks = 0
            /\ sw'.lastCount = sw'.read
            /\ sw'.elapsed = sw.elapsed + PollMs
            /\ sw'.wpc = IF sw'.elapsed < sw.maxWait THEN "poll" ELSE "final"
     ]_vars

\* a confirmation read differed, and the wait polls again from a counter of 0
StabilityConfirmationWitness ==
  /\ sw.wpc = "poll"
  /\ sw.regrew
  /\ sw.stableChecks = 0
  /\ sw.lastCount = sw.read
  /\ sw.read > 0

\* C37 - provenance of a returned step count: a non-zero count returned by
\* the stability wait either was read identically before and after the 1.5 s
\* confirmation delay, or was read after the maxWait ceiling expired, and
\* then it is returned whatever was read before; the wait returns 0 only
\* after the ceiling expired, from a read of an empty array.
ReturnedCountProvenance ==
  [][ReadStep /\ sw'.wpc = "returned" =>
       /\ sw'.ret = sw'.read
       /\ \/ /\ sw.wpc = "confirm"
             /\ sw'.ret > 0
             /\ sw.read = sw'.ret
             /\ sw.lastCount = sw'.ret
          \/ /\ sw.wpc = "final"
             /\ sw.elapsed >= sw.maxWait
       /\ sw'.ret = 0 => sw.wpc = "final" /\ sw'.read = 0
     ]_vars

\* the wait returned a count read after the ceiling that no earlier read had
\* given
ReturnedCountProvenanceWitness ==
  /\ sw.wpc = "returned"
  /\ sw.elapsed >= sw.maxWait
  /\ sw.ret > 0
  /\ sw.ret # sw.lastCount
  /\ sw.stableChecks = 0

\* C17: the wait enters the confirmation step only when each of the last 6
\* consecutive polls read a non-zero length equal to the length read by the
\* poll before it, and the time since the wait started (the 1.5 s of the
\* confirmation step not counted) is at least minTotalWait; a poll that
\* reads another length, 0 included, or fails restarts the count.
StabilityCriterion ==
  sw.wpc = "confirm" =>
    /\ sw.run >= RequiredStableChecks
    /\ sw.elapsed - ConfirmMs >= sw.minTotalWait

\* C18: the stability waits of the first two chart-URL operations run with
\* the cold bounds (30 s, 4 s), those of every later operation with the warm
\* bounds (20 s, 2 s), whether or not an earlier operation used the fallback.
ColdWarmByOperation ==
  sw.wpc \in {"poll", "confirm", "final"} =>
    IF sw.opNo <= ColdFetches
      THEN sw.maxWait = ColdMaxWait /\ sw.minTotalWait = ColdMinTotalWait
      ELSE sw.maxWait = WarmMaxWait /\ sw.minTotalWait = WarmMinTotalWait

\* C19: within one chart-URL operation the fallback (the script that clears
\* the step array and calls cercaImmagini) is run at most once, and only
\* when the first stability wait returned 0; when the first wait returned a
\* non-zero count the operation goes on to the labels: the array is not
\* cleared and no second stability wait runs.
FallbackTrigger ==
  [][/\ sw'.fallbacks <= 1
     /\ sw'.l = "ch_fallback" /\ sw.l # "ch_fallback" =>
          sw.l = "ch_stable1" /\ sw.wpc = "returned" /\ sw.ret = 0 /\ sw.fallbacks = 0
     /\ sw'.l = "ch_stable2" /\ sw.l # "ch_stable2" =>
          sw.l = "ch_fallback" /\ sw'.fallbacks = 1 /\ sw'.opNo = sw.opNo
     /\ sw.l = "ch_stable1" /\ sw.wpc = "returned" /\ sw.ret > 0 /\ sw' # sw =>
          sw'.l = "ch_labels" /\ sw'.fallbacks = 0
     /\ sw.l \in {"ch_stable2", "ch_labels"} /\ sw'.opNo = sw.opNo =>
          sw'.l \in {sw.l, "ch_labels", "finally_empty", "failed"}
    ]_vars

\* the second stability wait of an operation, after its one fallback
FallbackTriggerWitness ==
  /\ sw.l = "ch_stable2"
  /\ sw.fallbacks = 1
  /\ sw.wpc = "returned"

\* the fallback wait of the step runs with shorter bounds than the first wait
ShorterBounds ==
  /\ sw.maxWait < sw.firstMaxWait
  /\ sw.minTotalWait < sw.firstMinTotalWait

\* C20 (as stated): the stability wait repeated after the fallback uses a
\* ceiling and a floor strictly shorter than those of the first stability
\* wait of the same operation.
FallbackBoundsShorter ==
  sw.l = "ch_stable2" => ShorterBounds

\* C20 (amended): the stability wait repeated after the fallback uses a
\* ceiling and a floor that are never longer than those of the first
\* stability wait of the same operation; they are strictly shorter exactly
\* when the repeated wait is the third stability wait since the service
\* started, and the same otherwise.
FallbackBoundsNotLonger ==
  sw.l = "ch_stable2" =>
    /\ sw.maxWait <= sw.firstMaxWait
    /\ sw.minTotalWait <= sw.firstMinTotalWait
    /\ ShorterBounds <=> fetchCount = ColdFetches + 1
    /\ ~ShorterBounds =>
         sw.maxWait = sw.firstMaxWait /\ sw.minTotalWait = sw.firstMinTotalWait

\* a fallback wait with the warm bounds after a first wait with the cold ones
FallbackBoundsNotLongerWitness ==
  /\ sw.l = "ch_stable2"
  /\ sw.wpc = "poll"
  /\ sw.firstMaxWait = ColdMaxWait /\ sw.maxWait = WarmMaxWait
  /\ sw.firstMinTotalWait = ColdMinTotalWait /\ sw.minTotalWait = WarmMinTotalWait

(***************************************************************************)
(* Properties of an operation's stages and of their clocks.               *)
(***************************************************************************)
\* each wait stage is inside its bound: the load wait took at most 15 s; a
\* wait of waitForCondition and the label wait poll only before their
\* ceiling and have ended one interval after it at the latest; the stability
\* wait is never further than one interval and one confirmation delay
\* after its ceiling
StageBounds ==
  /\ op.pc = "settle" => op.t <= NavigationTimeoutMs
  /\ op.pc \in {"cat_wait", "ppt_wait"} => op.t < ListMaxWaitMs
  /\ op.pc \in {"cat_delay", "ppt_delay"} => op.t <= ListMaxWaitMs + ListIntervalMs
  /\ op.pc \in {"ch_stable1", "ch_stable2"} =>
       /\ op.w.wpc = "poll" => op.w.elapsed < op.w.maxWait
       /\ op.w.elapsed <= op.w.maxWait + PollMs + ConfirmMs
  /\ op.pc = "ch_labels" => op.t < labelMaxWait
  /\ op.pc = "ch_inline" => op.t <= labelMaxWait + LabelIntervalMs

NavigationPrecondition ==
  [][op' # op =>
       /\ op.pc = "ensure" /\ loggedIn /\ ~onSearchPage =>
            /\ op'.pc \in {"nav", "finally_err"}
            /\ op'.pc = "nav" => op'.navs = 1 /\ op'.t = 0
       /\ op.pc = "nav" =>
            /\ op'.pc = "settle"
            /\ op'.navs = 1
            /\ op'.t <= NavigationTimeoutMs
            /\ onSearchPage' \/ op'.t = NavigationTimeoutMs
       /\ op.pc = "settle" =>
            /\ op'.pc = FirstPc(op.phase)
            /\ op'.navs = 1
            /\ op'.t = op.t + SettleMs
       /\ op.pc = "ensure" /\ loggedIn /\ onSearchPage =>
            /\ op'.pc = FirstPc(op.phase)
            /\ op'.navs = 0
            /\ op'.t = 0
     ]_vars

\* the operation goes on to the form after a navigation that timed out
NavigationPreconditionWitness ==
  /\ op.pc \in {"cat_set", "ppt_read", "ch_reset"}
  /\ op.navs = 1
  /\ ~onSearchPage
  /\ op.t = NavigationTimeoutMs + SettleMs

\* C29 - catalog wait: after the product type was set the list is polled
\* every 500 ms from time 0; the poll ends when a read found more than 10
\* options or when 8 s of polling have passed; a fixed delay of 500 ms
\* follows and only then the list is extracted.  After a wait that reached
\* the ceiling the extraction is made all the same, once, and the operation
\* can return its content: the timeout raises no error.
CatalogWait ==
  [][op' # op =>
       /\ op.pc = "cat_set" /\ op'.pc # "finally_err" =>
            op'.pc = "cat_wait" /\ op'.t = 0
       /\ op.pc = "cat_wait" =>
            /\ op'.pc \in {"cat_wait", "cat_delay"}
            /\ op'.pc = "cat_wait" =>
                 /\ op'.t = op.t + ListIntervalMs
                 /\ op'.seen = Threw \/ op'.seen <= MinOptions
            /\ op'.pc = "cat_delay" =>
                 \/ op'.loaded /\ op'.seen > MinOptions /\ op'.t = op.t
                 \/ ~op'.loaded /\ op'.t = ListMaxWaitMs
       /\ op.pc = "cat_delay" =>
            /\ op'.pc = "cat_extract"
            /\ op'.t = op.t + ListBufferMs
            /\ op'.loaded = op.loaded
       /\ op.pc = "cat_extract" =>
            /\ op'.pc \in {"finally_ok", "ensure", "finally_err"}
            /\ ENABLED (TCatalogExtract /\ op'.pc # "finally_err")
     ]_vars

\* the extraction is due after a wait that reached the ceiling with the list
\* at the minimum
CatalogWaitWitness ==
  /\ op.pc = "cat_extract"
  /\ ~op.loaded
  /\ op.seen = MinOptions
  /\ op.t = ListMaxWaitMs + ListBufferMs

\* C28 - product selection retry: the chart-URL operation first clears the
\* step array, then sets the product field; 500 ms later it re-reads the
\* value; only when the value differs from the product id it pauses 2 s and
\* sets the field once more; after that, whether the second re-read matches
\* or not, it calls the stability wait.  The field is set at most twice.
ProductSelectionRetry ==
  [][op' # op /\ op'.pc # "finally_err" =>
       /\ op'.selects <= 2
       /\ op.pc = "ch_reset" => op'.pc = "ch_select" /\ op'.selects = 0
       /\ op.pc = "ch_select" => op'.pc = "ch_pause" /\ op'.selects = 1
       /\ op.pc = "ch_pause" => op'.pc = "ch_verify" /\ op'.t = op.t + VerifyDelayMs
       /\ op.pc = "ch_verify" =>
            /\ op'.selects = 1
            /\ op'.seen = 1 => op'.pc = "ch_stable1" /\ op'.w.wpc = "poll"
            /\ op'.seen = 0 => op'.pc = "ch_retry"
       /\ op.pc = "ch_retry" => op'.pc = "ch_reselect" /\ op'.t = op.t + RetryPauseMs
       /\ op.pc = "ch_reselect" => op'.pc = "ch_repause" /\ op'.selects = 2
       /\ op.pc = "ch_repause" => op'.pc = "ch_reverify" /\ op'.t = op.t + VerifyDelayMs
       /\ op.pc = "ch_reverify" =>
            op'.pc = "ch_stable1" /\ op'.w.wpc = "poll" /\ op'.selects = 2
     ]_vars

\* the stability wait begins after a retried selection that still differs
ProductSelectionRetryWitness ==
  /\ op.pc = "ch_stable1"
  /\ op.w.wpc = "poll"
  /\ op.selects = 2
  /\ op.seen = 0
  /\ op.t = VerifyDelayMs + RetryPauseMs + VerifyDelayMs

\* C27 - label wait: with a non-zero step count known, the label count is
\* polled every 500 ms; the wait is left as soon as the count reaches the
\* step count, or is at least 1 after more than 4 s, or when 8 s have
\* passed, and not otherwise; with zero labels it is not left before 8 s;
\* in every case the operation goes on towards the extraction.
LabelWait ==
  [][op.pc = "ch_labels" /\ op' # op =>
       /\ op'.pc \in {"ch_labels", "ch_inline"}
       /\ op'.pc = "ch_labels" => op'.t = op.t + LabelIntervalMs
       /\ op'.pc = "ch_inline" <=>
            \/ op'.seen >= op.expected
            \/ op'.seen > 0 /\ op.t > PartialAfterMs
            \/ op.t + LabelIntervalMs >= labelMaxWait
       /\ op'.pc # "ch_labels" /\ op'.seen <= 0 => op'.t >= labelMaxWait
     ]_vars

(***************************************************************************)
(* Properties of the extracted steps.                                      *)
(***************************************************************************)
Http == <<"h", "t", "t", "p">>

\* the first non-empty string of a list of candidates whose last is non-empty
RECURSIVE FirstNonEmpty(_)
FirstNonEmpty(cands) ==
  IF Len(cands) = 1 \/ Head(cands) # <<>> THEN Head(cands) ELSE FirstNonEmpty(Tail(cands))

\* C25 -- Step indexing: a non-empty result has exactly one step per entry of
\* arrLinkImmagini at extraction time, step k has index k (indexes are
\* 0..N-1, unique and strictly increasing), and every imageUrl is non-empty
\* and absolute: the entry's path when it starts with 'http', otherwise the
\* base URL joined with the path.
StepIndexing ==
  (dom.extracted /\ dom.steps # <<>>) =>
    LET arr == dom.arrLinkImmagini
        steps == dom.steps IN
    /\ Len(steps) = Len(arr)
    /\ \A k \in 1..Len(steps) : steps[k].index = k - 1
    /\ {steps[k].index : k \in 1..Len(steps)} = 0..(Len(arr) - 1)
    /\ \A j, k \in 1..Len(steps) : j < k => steps[j].index < steps[k].index
    /\ \A k \in 1..Len(steps) :
         LET path == Split(arr[k])[1] IN
         /\ steps[k].imageUrl # <<>>
         /\ StartsWith(steps[k].imageUrl, Http)
         /\ steps[k].imageUrl =
              IF StartsWith(path, Http) THEN path
              ELSE PROMETEO_BASE_URL \o <<"/">> \o path

\* two steps were extracted, one from an absolute and one from a relative path
StepIndexingWitness ==
  /\ dom.extracted
  /\ Len(dom.steps) >= 2
  /\ \E j, k \in 1..Len(dom.steps) :
       /\ StartsWith(Split(dom.arrLinkImmagini[j])[1], Http)
       /\ ~StartsWith(Split(dom.arrLinkImmagini[k])[1], Http)
       /\ dom.steps[k].imageUrl # dom.steps[j].imageUrl

\* C26 -- Label fallback order: the label of each entry is the inline text
\* after '---' when it is non-empty; otherwise the text of the DOM label
\* element at the same position (the label cell, or the validity button when
\* the cell has no text) when present and non-empty; otherwise the
\* weekday+time string of the date/time pattern of the path when one parses;
\* otherwise the synthetic 'T+NNN' label of the entry's position.  A
\* lower-priority source is used only when every higher-priority one is
\* missing or empty.
LabelFallbackOrder ==
  dom.extracted =>
    \A k \in 1..Len(dom.arrLinkImmagini) :
      LET parts == Split(dom.arrLinkImmagini[k])
          inline == IF Len(parts) > 1 THEN Trim(parts[2]) ELSE <<>>
          cell == IF k <= Len(dom.tds) THEN Trim(dom.tds[k]) ELSE <<>>
          button == IF k <= Len(dom.validBtns) THEN Trim(dom.validBtns[k]) ELSE <<>>
          element == IF cell # <<>> THEN cell ELSE button
          dated == labelFromPath(parts[1])
          synthetic == <<"T", "+">> \o PadStart(k - 1, 3) IN
      /\ dom.steps[k].label = FirstNonEmpty(<<inline, element, dated, synthetic>>)
      /\ dom.steps[k].label # <<>>

\* one step took its label from the page although its path holds a date, and
\* another took it from the date of its path
LabelFallbackOrderWitness ==
  /\ dom.extracted
  /\ \E j, k \in 1..Len(dom.steps) :
       /\ Len(Split(dom.arrLinkImmagini[j])) = 1
       /\ labelFromPath(dom.arrLinkImmagini[j]) # <<>>
       /\ dom.steps[j].label \in {<<"L">>, <<"B">>}
       /\ labelFromPath(dom.arrLinkImmagini[k]) # <<>>
       /\ dom.steps[k].label = labelFromPath(dom.arrLinkImmagini[k])

(***************************************************************************)
(* Properties of the IPC handlers.                                         *)
(***************************************************************************)
\* the service call of invocation c threw
ServiceThrew(c) == ipc[c].state # "none" /\ ipc[c].outcome # <<>> /\ ipc[c].outcome.throws

\* C38 - IPC error wrapping: every Prometeo IPC handler (catalog, chart URLs,
\* combined, PPT variant, image, download) resolves and never rejects; when
\* the service call throws, the handler returns the empty-shaped result of
\* its channel with an added error message, and for the download channel the
\* returned localPaths is the empty list.
IpcErrorWrapping ==
  \A c \in DOMAIN ipc :
    /\ ipc[c].state \in {"none", "awaiting", "resolved"}
    /\ ipc[c].outcome # <<>> => ipc[c].state = "resolved"
    /\ ServiceThrew(c) =>
         LET r == ipc[c].reply
             ch == ipc[c].channel
             empty == [f \in DOMAIN r \ {"error"} |-> r[f]] IN
         /\ "error" \in DOMAIN r
         /\ r.error # <<>>
         /\ r.error[Len(r.error)] = ipc[c].outcome.value.message
         /\ empty =
              CASE ch = "prometeo:fetch-catalog" -> EmptyCatalog
                [] ch = "prometeo:fetch-catalog-and-chart-urls" ->
                     [catalog |-> EmptyCatalog, chartUrls |-> EmptyChartUrls]
                [] ch = "prometeo:fetch-image" -> [dataUrl |-> Null]
                [] ch = "prometeo:download-charts" -> [localPaths |-> <<>>]
                [] OTHER -> EmptyChartUrls
         /\ ch = "prometeo:download-charts" => r.localPaths = <<>>

\* the download handler answered a thrown Error while another handler
\* answered a thrown string
IpcErrorWrappingWitness ==
  \E b, c \in DOMAIN ipc :
    /\ ServiceThrew(b) /\ ServiceThrew(c)
    /\ ipc[b].channel = "prometeo:download-charts"
    /\ ipc[b].outcome.value.isError
    /\ ipc[b].reply = [localPaths |-> <<>>, error |-> <<"Error: ", "Not authenticated">>]
    /\ ipc[c].channel \in JsonChannels
    /\ ~ipc[c].outcome.value.isError
    /\ ipc[c].state = "resolved"

(***************************************************************************)
(* Properties of the products store.                                       *)
(***************************************************************************)
\* C39 - products store consistency: for any sequence of selectProduct calls,
\* also a second call made while the first is still loading, whenever
\* isLoadingSteps is false the availableSteps of the store are the steps
\* fetched for the current selectedProduct (or empty after an error), never
\* the steps of a product selected before.
StoreConsistency ==
  store.calls > 0 /\ ~store.isLoadingSteps =>
    store.availableSteps \in {StepsOf(store.selectedProduct), <<>>}

(***************************************************************************)
(* Specifications: the session controller, the downloader, and the        *)
(* stability wait.                                                         *)
(***************************************************************************)
Init == InitSession /\ DLQuiet /\ WaitQuiet /\ OpQuiet /\ DomQuiet /\ IpcQuiet /\ StoreQuiet

Next == NextSession

Spec == Init /\ [][Next]_vars

InitDownloader == SessionQuiet /\ InitDL /\ WaitQuiet /\ OpQuiet /\ DomQuiet /\ IpcQuiet /\ StoreQuiet

SpecDL == InitDownloader /\ [][NextDL]_vars

\* a step of a running call: a fetch or a body read settles, a timer fires,
\* or the continuation of Promise.all runs
DLRun ==
  \/ \E w \in Workers :
       \/ FetchSettles(w)
       \/ BufferResolves(w)
       \/ BufferRejects(w)
       \/ DelayElapses(w)
  \/ PromiseAllResolves

\* every pending fetch, body read, timer and continuation is served in the end
SpecDLFair == InitDownloader /\ [][downloadCharts \/ DLRun]_vars /\ WF_vars(DLRun)

\* the event loop runs every continuation that is ready, and every holder's
\* try block ends
SpecLock ==
  /\ Init
  /\ [][NextLock]_vars
  /\ \A p \in Ops : WF_vars(Resume(p)) /\ WF_vars(TryBlock(p)) /\ WF_vars(Finally(p))

\* every awaited evaluation settles and every timer fires
SpecTimed == Init /\ [][NextTimed]_vars /\ WF_vars(TRun)

InitExtract == SessionQuiet /\ DLQuiet /\ WaitQuiet /\ OpQuiet /\ InitDom /\ IpcQuiet /\ StoreQuiet

SpecExtract == InitExtract /\ [][NextExtract]_vars

InitHandlers ==
  SessionQuiet /\ DLQuiet /\ WaitQuiet /\ OpQuiet /\ DomQuiet /\ InitIpc /\ StoreQuiet

SpecIpc == InitHandlers /\ [][NextIpc]_vars

InitRenderer ==
  SessionQuiet /\ DLQuiet /\ WaitQuiet /\ OpQuiet /\ DomQuiet /\ IpcQuiet /\ InitStore

SpecStore == InitRenderer /\ [][NextStore]_vars

InitWait == SessionQuiet /\ DLQuiet /\ WaitQuiet /\ OpQuiet /\ DomQuiet /\ IpcQuiet /\ StoreQuiet

SpecWait == InitWait /\ [][NextWait]_vars
====
